---- MODULE Spec2Model ----
(***************************************************************************)
(* Model of the RomainRicord/info HTTP adapter: company lookup against the *)
(* societe.com registry and e-mail relay over SMTP.                        *)
(*                                                                         *)
(* The repository holds eight revisions of one `package main`; the         *)
(* variable rev names the revision that is deployed, fixed at start-up:    *)
(*   "p002a"  src/unnamed/part_002 lines   1-137  (health/info only)       *)
(*   "p002b"  src/unnamed/part_002 lines 139-364  (/etablissement lookup)  *)
(*   "p001b"  src/unnamed/part_001 lines 397-605  (/etablissement, env token)*)
(*   "main1"  src/main.go          lines   1-237  (/etablissement lookup)  *)
(*   "p000"   src/unnamed/part_000                (/etablissement + raw log)*)
(*   "main2"  src/main.go          lines 238-443  (/exist lookup)          *)
(*   "main3"  src/main.go          lines 444-783  (/exist + plain e-mail)  *)
(*   "p001a"  src/unnamed/part_001 lines   1-396  (/exist + MIME e-mail)   *)
(* Strings are TLA+ strings; Len counts characters, and every identifier   *)
(* and payload of the model is ASCII, so Len agrees with Go's len.         *)
(* Log lines are the text of the log.Printf formats without the pictograph *)
(* each starts with (the module's strings do not hold such characters).    *)
(***************************************************************************)
EXTENDS Integers, Sequences, FiniteSets, TLC

VARIABLES
    rev,      \* the deployed revision
    env,      \* process environment: SMTP_HOST, SMTP_PORT, SMTP_ADMIN_EMAIL, SMTP_PASS,
              \* SOCIETE_API_TOKEN, ALLOWED_ORIGINS, HOSTNAME, PORT, ENVIRONMENT
    pc,       \* pc[r]: where request r is in its goroutine
    req,      \* req[r]: the inbound HTTP request (or the arguments of a direct sendMail465 call)
    up,       \* up[r]: what the registry answered to request r
    calls,    \* calls[r]: number of outbound calls (registry requests, relay
              \* connections) request r has made: a registry request counts
              \* from the moment it is issued, a relay connection from the
              \* moment tls.Dial or smtp.SendMail returns or blocks
    data,     \* data[r]: the *EntrepriseResponse returned by the fetch function
    err,      \* err[r]: the error value the handler holds
    resp,     \* resp[r]: the HTTP response written to the caller
    log,      \* log[r]: the lines request r wrote to the diagnostic log
    smtp      \* smtp[r]: the SMTP session of request r

vars == <<rev, env, pc, req, up, calls, data, err, resp, log, smtp>>

----------------------------------------------------------------------------
(* Bounds *)

MaxReq == 2
MaxRcpt == 2
MaxPayload == 200

Reqs == 1..MaxReq
Solo == {1}

----------------------------------------------------------------------------
(* Strings *)

\* strings.Contains
Contains(s, sub) ==
    \E i \in 1..(Len(s) - Len(sub) + 1) : SubSeq(s, i, i + Len(sub) - 1) = sub

\* strings.TrimPrefix
TrimPrefix(s, prefix) ==
    IF Len(prefix) <= Len(s) /\ SubSeq(s, 1, Len(prefix)) = prefix
    THEN SubSeq(s, Len(prefix) + 1, Len(s))
    ELSE s

HasPrefix(s, prefix) == Len(prefix) <= Len(s) /\ SubSeq(s, 1, Len(prefix)) = prefix

RECURSIVE ReplaceAll(_, _, _)
\* strings.ReplaceAll for a one-character old string (the string is halved
\* at each level, the characters are replaced one by one)
ReplaceAll(s, old, new) ==
    IF Len(s) = 0 THEN ""
    ELSE IF Len(s) = 1 THEN (IF s = old THEN new ELSE s)
    ELSE ReplaceAll(SubSeq(s, 1, Len(s) \div 2), old, new)
         \o ReplaceAll(SubSeq(s, Len(s) \div 2 + 1, Len(s)), old, new)

RECURSIVE Join(_, _)
\* strings.Join
Join(parts, sep) ==
    IF Len(parts) = 0 THEN ""
    ELSE IF Len(parts) = 1 THEN parts[1]
    ELSE parts[1] \o sep \o Join(Tail(parts), sep)

Digits == {"0", "1", "2", "3", "4", "5", "6", "7", "8", "9"}

\* The element of a one-element set.
Only(S) == CHOOSE x \in S : TRUE

\* strings.Index for a one-character separator: the position of its first
\* occurrence, 0 when there is none.
Index(s, c) ==
    Only({Only({IF idx = {} THEN 0 ELSE CHOOSE k \in idx : \A j \in idx : k <= j :
                idx \in {{k \in 1..Len(x) : SubSeq(x, k, k) = c}}}) :
          x \in {s}})

\* strings.Cut for a one-character separator: what is before it and after it.
Before(s, c) ==
    Only({Only({IF i = 0 THEN x ELSE SubSeq(x, 1, i - 1) : i \in {Index(x, c)}}) : x \in {s}})

After(s, c) ==
    Only({Only({IF i = 0 THEN "" ELSE SubSeq(x, i + 1, Len(x)) : i \in {Index(x, c)}}) :
          x \in {s}})

RECURSIVE Split(_, _)
\* strings.Split for a one-character separator
Split(s, c) ==
    Only({Only({IF i = 0 THEN <<x>>
                ELSE <<SubSeq(x, 1, i - 1)>> \o Split(SubSeq(x, i + 1, Len(x)), c) :
                i \in {Index(x, c)}}) :
          x \in {s}})


\* The control characters a string of this module can hold.
ControlChars == {"\n", "\r", "\t", "\f"}

\* The characters of ASCII a string of this module can hold: the printable
\* ones from the space (0x20) to the underscore (0x5F) and from a (0x61) to
\* the tilde (0x7E), and the control characters above.
AsciiChars ==
    LET printable == " !\"#$%&'()*+,-./0123456789:;<=>?@ABCDEFGHIJKLMNOPQRSTUVWXYZ[\\]^_"
                     \o "abcdefghijklmnopqrstuvwxyz{|}~"
    IN {SubSeq(printable, i, i) : i \in 1..Len(printable)} \cup ControlChars

\* The bytes of a character in UTF-8. A character of ASCII is its own byte.
\* An accented letter of Latin-1 (U+00C0 to U+00FF) is two bytes, C3 and a
\* second one. A byte above 7F is written as the character of Latin-1 that
\* has its code (the bytes C3 A9 of the e with an acute accent are "Ã" and
\* "©"), and such a character stands for that single byte wherever a string
\* of this module holds it: a slice that counts bytes can leave one half of
\* a letter on each side.
Utf8(c) ==
    LET accented == "àâäçéèêëîïôöùûüÿÀÂÄÇÉÈÊËÎÏÔÖÙÛÜ"
        second == " ¢¤§©¨ª«®¯´¶¹»¼¿"
        bytes == {"Ã"} \cup {SubSeq(second, k, k) : k \in 1..Len(second)}
        at == {k \in 1..Len(accented) : SubSeq(accented, k, k) = c}
    IN CASE c \in AsciiChars \cup bytes -> c
         [] at # {} -> "Ã" \o SubSeq(second, Only(at), Only(at))

\* Go's len(s), the number of bytes of the UTF-8 text, for a string made of
\* characters of ASCII and single bytes, which count for one, and of the
\* accented letters of Latin-1, which count for two.
ByteLen(s) ==
    CASE \A i \in 1..Len(s) :
            SubSeq(s, i, i) \in AsciiChars \/ Len(Utf8(SubSeq(s, i, i))) > 0
           -> Len(s) + Cardinality({i \in 1..Len(s) :
                                      /\ SubSeq(s, i, i) \notin AsciiChars
                                      /\ Len(Utf8(SubSeq(s, i, i))) = 2})

\* strconv.Quote, which %q and url.Error use: the string between double
\* quotes with Go's escapes.
RECURSIVE QuoteChars(_)
QuoteChars(s) ==
    LET QuoteChar(c) ==
            CASE c = "\"" -> "\\\""
              [] c = "\\" -> "\\\\"
              [] c = "\n" -> "\\n"
              [] c = "\r" -> "\\r"
              [] c = "\t" -> "\\t"
              [] c = "\f" -> "\\f"
              [] OTHER    -> c
    \* (the string is halved at each level)
    IN Only({IF Len(x) <= 1 THEN QuoteChar(x)
             ELSE QuoteChars(SubSeq(x, 1, Len(x) \div 2))
                  \o QuoteChars(SubSeq(x, Len(x) \div 2 + 1, Len(x))) :
             x \in {s}})

Quote(s) == "\"" \o QuoteChars(s) \o "\""

RECURSIVE ToLower(_)
\* strings.ToLower on ASCII text
ToLower(s) ==
    Only({IF x = "" THEN ""
          ELSE Only({(IF i # 0 THEN SubSeq("abcdefghijklmnopqrstuvwxyz", i, i)
                      ELSE SubSeq(x, 1, 1)) \o ToLower(SubSeq(x, 2, Len(x))) :
                     i \in {Index("ABCDEFGHIJKLMNOPQRSTUVWXYZ", SubSeq(x, 1, 1))}}) :
          x \in {s}})

IsDigits(s) == \A i \in 1..Len(s) : SubSeq(s, i, i) \in Digits

----------------------------------------------------------------------------
(* encoding/json *)

\* The escape encoding/json writes for one character of a string value
\* (Encoder with its default EscapeHTML; the Dockerfile builds with go 1.25,
\* which writes the form feed as \f). The other control characters and
\* U+2028, U+2029, which encoding/json writes as \u00XX and \u202X, cannot
\* be written in a string of this module and are in none of its inputs.
EscapeChar(c) ==
    CASE c = "\"" -> "\\\""
      [] c = "\\" -> "\\\\"
      [] c = "\n" -> "\\n"
      [] c = "\r" -> "\\r"
      [] c = "\t" -> "\\t"
      [] c = "\f" -> "\\f"
      [] c = "<"  -> "\\u003c"
      [] c = ">"  -> "\\u003e"
      [] c = "&"  -> "\\u0026"
      [] OTHER    -> c


RECURSIVE JsonEscape(_)
\* A string value as encoding/json writes it: the characters up to the first
\* one that has an escape are copied, that one is escaped, and the rest is
\* written the same way. (x is the string and i the place of that character,
\* each computed once.)
JsonEscape(s) ==
    Only({IF \A k \in 1..Len(x) : EscapeChar(SubSeq(x, k, k)) = SubSeq(x, k, k) THEN x
          ELSE Only({SubSeq(x, 1, i - 1) \o EscapeChar(SubSeq(x, i, i))
                     \o JsonEscape(SubSeq(x, i + 1, Len(x))) :
                     i \in {CHOOSE k \in 1..Len(x) :
                               /\ EscapeChar(SubSeq(x, k, k)) # SubSeq(x, k, k)
                               /\ \A j \in 1..(k - 1) :
                                     EscapeChar(SubSeq(x, j, j)) = SubSeq(x, j, j)}}) :
          x \in {s}})

JsonString(s) == "\"" \o JsonEscape(s) \o "\""

Member(k, v) == JsonString(k) \o ":" \o JsonString(v)

\* json.NewEncoder(w).Encode(map[string]string{k: v})
EncodeMap(k, v) == "{" \o Member(k, v) \o "}\n"

----------------------------------------------------------------------------
(* Errors *)

\* A Go error value: nil, or an error whose Error() is msg.
NoErr == [nil |-> TRUE, msg |-> ""]
Errorf(m) == [nil |-> FALSE, msg |-> m]

NoData == [denomination |-> "", siren |-> "", siret |-> "", tva |-> "",
           ville |-> "", code_postal |-> ""]

----------------------------------------------------------------------------
(* The registry's answers *)

Adresses(villes, codes) == [ville : villes, code_postal : codes]

NoCommon == [deno |-> "", siren |-> "", siretsiege |-> "", numtva |-> ""]
NoAdresse == [ville |-> "", code_postal |-> ""]

\* Payloads of the /etablissement shape: every combination of the three name
\* fields and of the root-level and etablissement-level address fields.
ComDocs ==
    [denomination : {"", "ACME"},
     denomination_usuelle : {"", "ACME USUEL"},
     enseigne : {"", "CHEZ ACME"},
     adresse : Adresses({"", "PARIS"}, {"", "75001"}),
     etablissement : [adresse : Adresses({"", "LYON"}, {"", "69000"})],
     common : {NoCommon}]

\* Payloads of the /exist shape: a "common" object.
ExistDocs ==
    [denomination : {""},
     denomination_usuelle : {""},
     enseigne : {""},
     adresse : {NoAdresse},
     etablissement : {[adresse |-> NoAdresse]},
     common : [deno : {"", "ACME SAS"}, siren : {"", "123456789"},
               siretsiege : {"", "12345678901234"}, numtva : {""}]]

Docs == ComDocs \cup ExistDocs

Opt(k, v) == IF v = "" THEN <<>> ELSE <<Member(k, v)>>

OptObj(k, members) ==
    IF members = <<>> THEN <<>>
    ELSE <<JsonString(k) \o ":{" \o Join(members, ",") \o "}">>

RenderAdresse(a) == Opt("ville", a.ville) \o Opt("code_postal", a.code_postal)

\* The JSON text of a payload; a field that is empty is absent from the text.
Render(d) ==
    "{" \o Join(Opt("denomination", d.denomination)
                \o Opt("denomination_usuelle", d.denomination_usuelle)
                \o Opt("enseigne", d.enseigne)
                \o OptObj("adresse", RenderAdresse(d.adresse))
                \o OptObj("etablissement",
                          OptObj("adresse", RenderAdresse(d.etablissement.adresse)))
                \o OptObj("common", Opt("deno", d.common.deno)
                                    \o Opt("siren", d.common.siren)
                                    \o Opt("siretsiege", d.common.siretsiege)
                                    \o Opt("numtva", d.common.numtva)),
                ",") \o "}"

\* Each payload with its JSON text.
Rendered == {<<Render(d), d>> : d \in Docs}

JsonBodies == {p[1] : p \in Rendered}

\* A JSON value followed by other text.
TrailedBodies ==
    {Render(d) \o "<br />" :
        d \in {x \in Docs :
                  /\ x.denomination_usuelle = "" /\ x.enseigne = ""
                  /\ x.adresse = NoAdresse /\ x.etablissement.adresse = NoAdresse
                  /\ \/ x.denomination = "ACME"
                     \/ x.common = [deno |-> "ACME SAS", siren |-> "123456789",
                                    siretsiege |-> "", numtva |-> ""]}}

\* Bodies that are not JSON: empty, or starting with a character no JSON
\* value starts with, or going on after the end of a JSON value.
BadBodies == {"", "oops", "<html>introuvable</html>"} \cup TrailedBodies

\* Bodies the registry sends with an error status.
ErrBodies == {"", "Internal Server Error", "{\"message\":\"Ressource introuvable\"}"}

NoAnswer == [kind |-> "none", status |-> 0, body |-> "", cause |-> ""]

\* What one call to the registry can produce: client.Do fails, or it answers
\* a status and a body, or the body cannot be read to its end.
Answers ==
    [kind : {"transport"}, status : {0}, body : {""},
     cause : {"dial tcp: lookup api.societe.com: no such host",
              "context deadline exceeded (Client.Timeout exceeded while awaiting headers)"}]
    \cup [kind : {"http"}, status : {200}, body : JsonBodies \cup BadBodies, cause : {""}]
    \cup [kind : {"http"}, status : {201, 400, 404, 500}, body : ErrBodies, cause : {""}]
    \cup [kind : {"read"}, status : {200, 404, 500}, body : {""}, cause : {"unexpected EOF"}]

\* json.Unmarshal / Decoder.Decode of a body into a struct of string fields:
\* the payload it denotes, or a syntax error.
IsJson(b) == b \in JsonBodies

Parse(b) == (CHOOSE p \in Rendered : p[1] = b)[2]

InvalidCharacter(b) ==
    "invalid character '" \o SubSeq(b, 1, 1) \o "' looking for beginning of value"

\* The body starts with a JSON value.
HasFirstValue(b) == \E p \in JsonBodies : HasPrefix(b, p)

\* The JSON value a body starts with (an object ends at its closing brace).
FirstValue(b) == CHOOSE p \in JsonBodies : HasPrefix(b, p)

\* json.Unmarshal(bodyBytes, &apiData): the whole body is to be one value.
UnmarshalErr(b) ==
    IF b = "" THEN "unexpected end of JSON input"
    ELSE IF HasFirstValue(b)
    THEN "invalid character '"
         \o SubSeq(b, Len(FirstValue(b)) + 1, Len(FirstValue(b)) + 1)
         \o "' after top-level value"
    ELSE InvalidCharacter(b)

\* json.NewDecoder(r).Decode(&apiData): the decoder reads the first value of
\* the stream and leaves what follows it unread.
DecodeErr(b) ==
    IF b = "" THEN "EOF" ELSE InvalidCharacter(b)

\* net/url's escape of one character, in a path (encodePath) or in a
\* fragment (encodeFragment). The letters, the digits, the marks - _ . ~ and
\* the reserved $ & + , / : ; = @ are left as they are, in a fragment also
\* ? ! ( ) *; every other character is written as a percent sign and the
\* two hexadecimal digits of each of its bytes: the printable characters by
\* their place in ASCII, the control characters, the accented e by its two
\* bytes.
EscapeByte(c, mode) ==
    LET low == " !\"#$%&'()*+,-./0123456789:;<=>?@ABCDEFGHIJKLMNOPQRSTUVWXYZ[\\]^_"
        high == "abcdefghijklmnopqrstuvwxyz{|}~"
        code == IF Index(low, c) # 0 THEN 31 + Index(low, c) ELSE 96 + Index(high, c)
        digits == "0123456789ABCDEF"
        safe == "ABCDEFGHIJKLMNOPQRSTUVWXYZabcdefghijklmnopqrstuvwxyz0123456789-_.~$&+,/:;=@"
                \o (IF mode = "fragment" THEN "?!()*" ELSE "")
    IN IF Index(safe, c) # 0
       THEN c
       ELSE IF Index(low \o high, c) # 0
       THEN "%" \o SubSeq(digits, (code \div 16) + 1, (code \div 16) + 1)
                \o SubSeq(digits, (code % 16) + 1, (code % 16) + 1)
       ELSE CASE c = "\t" -> "%09"
              [] c = "\n" -> "%0A"
              [] c = "\f" -> "%0C"
              [] c = "\r" -> "%0D"
              [] c = "é" -> "%C3%A9"

RECURSIVE Escape(_, _)
\* net/url's escape(s, mode) (the string is halved at each level)
Escape(s, mode) ==
    Only({IF x = "" THEN ""
          ELSE IF Len(x) = 1 THEN EscapeByte(x, mode)
          ELSE Escape(SubSeq(x, 1, Len(x) \div 2), mode)
               \o Escape(SubSeq(x, Len(x) \div 2 + 1, Len(x)), mode) :
          x \in {s}})

RECURSIVE Reescape(_, _)
\* escape(unescape(s, mode), mode) for a string whose escapes are well
\* formed: an escape that stands for a character the mode leaves as it is
\* becomes that character, any other escape is written with capital
\* hexadecimal digits, and the characters outside escapes are escaped.
Reescape(s, mode) ==
    Only({IF i = 0 THEN Escape(x, mode)
          ELSE LET low == " !\"#$%&'()*+,-./0123456789:;<=>?@ABCDEFGHIJKLMNOPQRSTUVWXYZ[\\]^_"
                   high == "abcdefghijklmnopqrstuvwxyz{|}~"
                   val(h) == IF Index("0123456789ABCDEF", h) # 0
                             THEN Index("0123456789ABCDEF", h) - 1
                             ELSE Index("0123456789abcdef", h) - 1
                   hi == val(SubSeq(x, i + 1, i + 1))
                   lo == val(SubSeq(x, i + 2, i + 2))
                   code == 16 * hi + lo
                   ch == IF code >= 32 /\ code <= 95 THEN SubSeq(low, code - 31, code - 31)
                         ELSE IF code >= 97 /\ code <= 126 THEN SubSeq(high, code - 96, code - 96)
                         ELSE ""
               IN Escape(SubSeq(x, 1, i - 1), mode)
                  \o (IF ch # "" /\ EscapeByte(ch, mode) = ch THEN ch
                      ELSE "%" \o SubSeq("0123456789ABCDEF", hi + 1, hi + 1)
                               \o SubSeq("0123456789ABCDEF", lo + 1, lo + 1))
                  \o Reescape(SubSeq(x, i + 3, Len(x)), mode) :
          x \in {s}, i \in {Index(s, "%")}})

\* url.URL.String() of a URL that url.Parse accepted (the URL of the request
\* a fetch function builds, part_001 113-115): the part before the query
\* as EscapedPath() gives it, the query as it was written, and a fragment
\* that is not empty as EscapedFragment() gives it. Each of the two keeps
\* the text it was parsed from when that text is a valid encoding (it
\* holds, besides the characters the mode leaves as they are, only escapes
\* and ! $ & ' ( ) * + , ; = : @ [ ]), and is escaped anew otherwise. The
\* scheme and the host of the registry's URLs hold no character that is
\* escaped.
UrlString(url) ==
    LET valid(x, mode) ==
            \A i \in 1..Len(x) :
                \/ Index("!$&'()*+,;=:@[]%", SubSeq(x, i, i)) # 0
                \/ EscapeByte(SubSeq(x, i, i), mode) = SubSeq(x, i, i)
        again(x, mode) == IF valid(x, mode) THEN x ELSE Reescape(x, mode)
    IN Only({again(Before(u, "?"), "path")
             \o (IF Index(u, "?") # 0 THEN "?" \o After(u, "?") ELSE "")
             \o (IF f # "" THEN "#" \o again(f, "fragment") ELSE "") :
             u \in {Before(url, "#")}, f \in {After(url, "#")}})

\* The error of client.Do: a *url.Error, which quotes the URL of the request
\* as String() writes it.
UrlError(url, cause) == "Get " \o Quote(UrlString(url)) \o ": " \o cause

ExistUrl(numid) == "https://api.societe.com/api/v1/entreprise/" \o numid \o "/exist"

EtablissementUrl(siret) == "https://api.societe.com/api/v1/etablissement/" \o siret

\* The first escape of s that is not a percent sign and two hexadecimal
\* digits, as net/url's unescape reports it (at most three characters), or
\* "" when every escape is well formed.
BadEscape(s) ==
    LET hex == Digits \cup {"a", "b", "c", "d", "e", "f", "A", "B", "C", "D", "E", "F"}
        bad == {i \in 1..Len(s) :
                  /\ SubSeq(s, i, i) = "%"
                  /\ \/ i + 2 > Len(s)
                     \/ SubSeq(s, i + 1, i + 1) \notin hex
                     \/ SubSeq(s, i + 2, i + 2) \notin hex}
    IN IF bad = {} THEN ""
       ELSE LET i == CHOOSE k \in bad : \A j \in bad : k <= j
            IN SubSeq(s, i, IF i + 2 > Len(s) THEN Len(s) ELSE i + 2)

\* http.NewRequest(GET, url, nil) (part_001 115): the error of url.Parse for
\* a registry URL built from the identifier, or "" when the URL parses.
\* url.Parse cuts the fragment at the first "#"; in what is before it, it
\* refuses a control character, then cuts the query at the first "?" and
\* refuses a malformed escape in the path; last it refuses a malformed
\* escape in the fragment. The query is not looked at, and the errors of the
\* first two tests quote the URL without its fragment.
NewRequestErr(url) ==
    Only({IF \E i \in 1..Len(u) : SubSeq(u, i, i) \in ControlChars
          THEN "parse " \o Quote(u) \o ": net/url: invalid control character in URL"
          ELSE IF esc # ""
          THEN "parse " \o Quote(u) \o ": invalid URL escape " \o Quote(esc)
          ELSE IF fesc # ""
          THEN "parse " \o Quote(url) \o ": invalid URL escape " \o Quote(fesc)
          ELSE "" :
          u \in {Before(url, "#")}, esc \in {BadEscape(Before(Before(url, "#"), "?"))},
          fesc \in {BadEscape(After(url, "#"))}})

\* What a fetch function hands back: the result, the error, the lines it logged.
Fetched(d, e, l) == [data |-> d, err |-> e, log |-> l]

----------------------------------------------------------------------------
(* Response Normalizer: the mapping of the decoded payload *)

\* main.go 132-139: the first name that is not empty, else the enseigne.
Denomination_main1(apiData) ==
    IF apiData.denomination # "" THEN apiData.denomination
    ELSE IF apiData.denomination_usuelle # "" THEN apiData.denomination_usuelle
    ELSE apiData.enseigne

\* part_000 141-148
Denomination_p000(apiData) ==
    IF apiData.denomination # "" THEN apiData.denomination
    ELSE IF apiData.denomination_usuelle # "" THEN apiData.denomination_usuelle
    ELSE apiData.enseigne

\* part_002 277-286
Denomination_p002b(apiData) ==
    IF apiData.denomination # "" THEN apiData.denomination
    ELSE IF apiData.denomination_usuelle # "" THEN apiData.denomination_usuelle
    ELSE IF apiData.enseigne # "" THEN apiData.enseigne
    ELSE "Nom Inconnu"

\* part_001 522-531
Denomination_p001b(apiData) ==
    IF apiData.denomination # "" THEN apiData.denomination
    ELSE IF apiData.denomination_usuelle # "" THEN apiData.denomination_usuelle
    ELSE IF apiData.enseigne # "" THEN apiData.enseigne
    ELSE "Nom inconnu"

\* main.go 141-148: the root address when its city is set, else the
\* etablissement's.
Adresse_main1(apiData) ==
    IF apiData.adresse.ville # ""
    THEN [ville |-> apiData.adresse.ville, code_postal |-> apiData.adresse.code_postal]
    ELSE [ville |-> apiData.etablissement.adresse.ville,
          code_postal |-> apiData.etablissement.adresse.code_postal]

\* part_000 150-157
Adresse_p000(apiData) ==
    IF apiData.adresse.ville # ""
    THEN [ville |-> apiData.adresse.ville, code_postal |-> apiData.adresse.code_postal]
    ELSE [ville |-> apiData.etablissement.adresse.ville,
          code_postal |-> apiData.etablissement.adresse.code_postal]

\* Adresse_p002b falling back field by field.
Adresse_p002b_merge(apiData) ==
    [ville |-> IF apiData.adresse.ville # "" THEN apiData.adresse.ville
               ELSE apiData.etablissement.adresse.ville,
     code_postal |-> IF apiData.adresse.code_postal # "" THEN apiData.adresse.code_postal
                     ELSE apiData.etablissement.adresse.code_postal]

\* part_002 288-296: as above, and nothing when neither city is set.
Adresse_p002b(apiData) ==
    IF apiData.adresse.ville # ""
    THEN [ville |-> apiData.adresse.ville, code_postal |-> apiData.adresse.code_postal]
    ELSE IF apiData.etablissement.adresse.ville # ""
    THEN [ville |-> apiData.etablissement.adresse.ville,
          code_postal |-> apiData.etablissement.adresse.code_postal]
    ELSE NoAdresse

\* part_001 533-535: SocieteComResponse has no etablissement there.
Adresse_p001b(apiData) ==
    [ville |-> apiData.adresse.ville, code_postal |-> apiData.adresse.code_postal]

\* The *EntrepriseResponse of the /etablissement revisions.
ComResult(name, adr) ==
    [denomination |-> name, siren |-> "", siret |-> "", tva |-> "",
     ville |-> adr.ville, code_postal |-> adr.code_postal]

\* part_001 150-154 (main.go 366-369, 578-581)
ExistResult(apiData) ==
    [denomination |-> apiData.common.deno, siren |-> apiData.common.siren,
     siret |-> apiData.common.siretsiege, tva |-> apiData.common.numtva,
     ville |-> "", code_postal |-> ""]

----------------------------------------------------------------------------
(* Registry Lookup Client *)

\* main.go 94-151
fetchSocieteComData_main1(siret, a) ==
    IF a.kind = "transport"
    THEN Fetched(NoData, Errorf(UrlError(EtablissementUrl(siret), a.cause)), <<>>)
    ELSE IF a.status = 404 THEN Fetched(NoData, Errorf("SIRET introuvable"), <<>>)
    ELSE IF a.status # 200
    THEN Fetched(NoData, Errorf("erreur API distante : " \o ToString(a.status)), <<>>)
    ELSE IF a.kind = "read" THEN Fetched(NoData, Errorf(a.cause), <<>>)
    ELSE IF ~HasFirstValue(a.body) THEN Fetched(NoData, Errorf(DecodeErr(a.body)), <<>>)
    ELSE LET d == Parse(FirstValue(a.body)) IN
         Fetched(ComResult(Denomination_main1(d), Adresse_main1(d)), NoErr, <<>>)

\* part_000 93-160
fetchSocieteComData_p000(siret, a) ==
    IF a.kind = "transport"
    THEN Fetched(NoData, Errorf(UrlError(EtablissementUrl(siret), a.cause)), <<>>)
    ELSE IF a.kind = "read" THEN Fetched(NoData, Errorf(a.cause), <<>>)
    ELSE LET raw == <<"RAW JSON Societe.com : " \o a.body>> IN
         IF a.status = 404 THEN Fetched(NoData, Errorf("SIRET introuvable"), raw)
         ELSE IF a.status # 200
         THEN Fetched(NoData, Errorf("erreur API distante : " \o ToString(a.status)), raw)
         ELSE IF ~IsJson(a.body) THEN Fetched(NoData, Errorf(UnmarshalErr(a.body)), raw)
         ELSE Fetched(ComResult(Denomination_p000(Parse(a.body)), Adresse_p000(Parse(a.body))),
                      NoErr, raw)

\* part_002 229-299
fetchSocieteComData_p002b(siret, a) ==
    IF a.kind = "transport"
    THEN Fetched(NoData, Errorf(UrlError(EtablissementUrl(siret), a.cause)), <<>>)
    ELSE IF a.kind = "read" THEN Fetched(NoData, Errorf(a.cause), <<>>)
    ELSE IF a.status = 404
    THEN Fetched(NoData, Errorf("entreprise introuvable sur Societe.com"), <<>>)
    ELSE IF a.status # 200
    THEN Fetched(NoData,
                 Errorf("erreur API (" \o ToString(a.status) \o "): " \o a.body), <<>>)
    ELSE IF ~HasFirstValue(a.body)
    THEN Fetched(NoData, Errorf("erreur parsing JSON: " \o DecodeErr(a.body)), <<>>)
    ELSE LET d == Parse(FirstValue(a.body)) IN
         Fetched(ComResult(Denomination_p002b(d), Adresse_p002b(d)), NoErr, <<>>)

\* part_001 477-538, from the request on (the token check before it is
\* TokenMissing)
fetchSocieteComData_p001b(siret, a) ==
    IF a.kind = "transport"
    THEN Fetched(NoData, Errorf(UrlError(EtablissementUrl(siret), a.cause)), <<>>)
    ELSE IF a.status = 404
    THEN Fetched(NoData, Errorf("entreprise introuvable sur Societe.com"), <<>>)
    ELSE IF a.status # 200
    THEN Fetched(NoData, Errorf("erreur API Societe.com: " \o ToString(a.status)), <<>>)
    ELSE IF a.kind = "read" THEN Fetched(NoData, Errorf(a.cause), <<>>)
    ELSE IF ~HasFirstValue(a.body) THEN Fetched(NoData, Errorf(DecodeErr(a.body)), <<>>)
    ELSE LET d == Parse(FirstValue(a.body)) IN
         Fetched(ComResult(Denomination_p001b(d), Adresse_p001b(d)), NoErr, <<>>)

\* part_001 112-157 (main.go 539-584; main.go 324-376 also warns of an empty name)
fetchSocieteExistData(rv, numid, a) ==
    IF a.kind = "transport"
    THEN Fetched(NoData, Errorf(UrlError(ExistUrl(numid), a.cause)), <<>>)
    ELSE IF a.kind = "read" THEN Fetched(NoData, Errorf(a.cause), <<>>)
    ELSE IF a.status = 404
    THEN Fetched(NoData, Errorf("entreprise introuvable (numid invalide)"), <<>>)
    ELSE IF a.status # 200
    THEN Fetched(NoData,
                 Errorf("erreur API distante : " \o ToString(a.status) \o " - " \o a.body),
                 <<>>)
    ELSE LET dbg == <<"DEBUG - Réponse API brute pour " \o numid \o " : " \o a.body>> IN
         IF ~IsJson(a.body)
         THEN Fetched(NoData, Errorf("erreur de décodage JSON : " \o UnmarshalErr(a.body)), dbg)
         ELSE Fetched(ExistResult(Parse(a.body)), NoErr,
                      dbg \o (IF rv = "main2" /\ Parse(a.body).common.deno = ""
                              THEN <<"ATTENTION : La dénomination est toujours vide. Vérifie si l'API n'a pas changé de structure.">>
                              ELSE <<>>))

ComRevs == {"main1", "p000", "p001b", "p002b"}
ExistRevs == {"main2", "main3", "p001a"}
MailRevs == {"main3", "p001a"}
Revisions == ComRevs \cup ExistRevs \cup {"p002a"}

\* The fetch function the deployed revision's entrepriseHandler calls.
fetch(rv, numid, a) ==
    CASE rv = "main1" -> fetchSocieteComData_main1(numid, a)
      [] rv = "p000"  -> fetchSocieteComData_p000(numid, a)
      [] rv = "p001b" -> fetchSocieteComData_p001b(numid, a)
      [] rv = "p002b" -> fetchSocieteComData_p002b(numid, a)
      [] OTHER        -> fetchSocieteExistData(rv, numid, a)

----------------------------------------------------------------------------
(* HTTP surface *)

\* The response headers the server sets: the three Access-Control-Allow-*,
\* Access-Control-Max-Age, Content-Type and Location.
NoHeaders == [allowOrigin |-> "", allowMethods |-> "", allowHeaders |-> "", maxAge |-> "",
              contentType |-> "", location |-> ""]
NoResp == [status |-> 0, body |-> "", headers |-> NoHeaders]

\* w.Header().Set("Content-Type", "application/json"), the first statement
\* of every handler (part_001 162, 197, 361, 366).
SetJson(old) == [old EXCEPT !.headers.contentType = "application/json"]

\* w.WriteHeader(status); json.NewEncoder(w).Encode(...) in a handler that
\* has set the content type: the response the handler writes, on top of the
\* headers already set.
Respond(old, status, body) == [SetJson(old) EXCEPT !.status = status, !.body = body]

\* The allow-list of corsMiddleware (part_001 84-88 has a trailing slash on
\* the third origin).
AllowedOrigins(rv) ==
    {"http://localhost:8082", "https://vintagestandards.fr",
     IF rv = "p001a" THEN "https://dev.vintagestandards.fr/"
                     ELSE "https://dev.vintagestandards.fr"}

\* The headers corsMiddleware sets (part_001 84-99). part_002 28-36 sends
\* the value of ALLOWED_ORIGINS, or "*" when it is empty, whatever the
\* request's origin.
CorsHeaders(rv, ev, origin) ==
    IF rv = "p002a"
    THEN [NoHeaders EXCEPT
            !.allowOrigin = IF ev.ALLOWED_ORIGINS = "" THEN "*" ELSE ev.ALLOWED_ORIGINS,
            !.allowMethods = "GET, POST, PUT, DELETE, OPTIONS",
            !.allowHeaders = "Content-Type, Authorization, Accept",
            !.maxAge = "3600"]
    ELSE [NoHeaders EXCEPT
            !.allowOrigin = IF origin \in AllowedOrigins(rv) THEN origin ELSE "",
            !.allowMethods = "GET, POST, OPTIONS",
            !.allowHeaders = "Content-Type, Authorization"]

EntreprisePrefix == "/api/entreprise/"

\* The subtree patterns main() registers (part_001 383-385; part_002 125
\* registers "/" and no other subtree).
Subtrees(rv) ==
    IF rv = "p002a" THEN {}
    ELSE IF rv \in MailRevs THEN {EntreprisePrefix, "/Send/"}
    ELSE {EntreprisePrefix}

RECURSIVE Resolve(_, _)
\* path.Clean on the segments of a rooted path: the empty segments and "."
\* are dropped, ".." drops the segment before it.
Resolve(segs, acc) ==
    Only({IF sg = <<>> THEN a
          ELSE Resolve(Tail(sg),
                       IF Head(sg) \in {"", "."} THEN a
                       ELSE IF Head(sg) = ".."
                       THEN (IF a = <<>> THEN a ELSE SubSeq(a, 1, Len(a) - 1))
                       ELSE Append(a, Head(sg))) :
          sg \in {segs}, a \in {acc}})

\* net/http's cleanPath, which ServeMux applies to the request's path before
\* it matches: path.Clean of the rooted path, the final slash kept.
cleanPath(path) ==
    Only({Only({IF SubSeq(p, Len(p), Len(p)) = "/" /\ np # "/" THEN np \o "/" ELSE np :
                np \in {"/" \o Join(Resolve(Split(p, "/"), <<>>), "/")}}) :
          p \in {IF path = "" THEN "/" ELSE IF SubSeq(path, 1, 1) # "/" THEN "/" \o path
                                             ELSE path}})

\* The pattern of main() a clean path matches (part_001 379-385; part_002
\* 123-125), by the name of its handler.
Match(rv, path) ==
    IF path = "/health" THEN "health"
    ELSE IF path = "/info" THEN "info"
    ELSE IF rv # "p002a" /\ HasPrefix(path, EntreprisePrefix) THEN "entreprise"
    ELSE IF rv \in MailRevs /\ (path = "/api/send-email" \/ HasPrefix(path, "/Send/"))
    THEN "sendEmail"
    ELSE IF rv = "p002a" THEN "error"
    ELSE "notFound"

\* http.ServeMux with the patterns main() registers (part_001 379-385): the
\* handler a path goes to. The mux cleans the path; a clean path that is a
\* subtree pattern without its final slash is redirected to the pattern, a
\* path that was not clean is redirected to the clean path, and the others
\* go to the handler of their pattern. The mux cleans the path in its
\* escaped form; the paths of the requests escape no slash and no dot, so
\* the segments of r.URL.Path are those of the escaped path.
Route(rv, path) ==
    Only({IF (c \o "/") \in Subtrees(rv) THEN "redirect"
          ELSE IF c # path THEN "redirect"
          ELSE Match(rv, path) :
          c \in {cleanPath(path)}})

\* Identifier Validator: the length test of entrepriseHandler
\* (part_001 166; main.go 162, part_000 170, part_002 308, part_001 547 want 14).
ValidLength(rv, numid) ==
    IF rv \in ExistRevs THEN ByteLen(numid) = 9 \/ ByteLen(numid) = 14
    ELSE ByteLen(numid) = 14

InvalidIdentifierMsg(rv) ==
    CASE rv \in ExistRevs ->
           "Le paramètre doit être un SIREN (9 chiffres) ou un SIRET (14 chiffres)"
      [] rv = "p000" -> "Le SIRET doit contenir exactement 14 chiffres"
      [] OTHER -> "Le SIRET doit contenir 14 chiffres"

\* The test entrepriseHandler makes to tell "not found" from other errors
\* (main.go 177 compares, the other revisions search for "introuvable").
IsNotFound(rv, e) ==
    IF rv = "main1" THEN e.msg = "SIRET introuvable"
    ELSE Contains(e.msg, "introuvable")

NotFoundMsg(rv) ==
    CASE rv = "main1" -> "Entreprise non trouvée sur Societe.com"
      [] rv = "p000" -> "Entreprise introuvable"
      [] rv \in {"p001b", "p002b"} -> "Entreprise non trouvée"
      [] OTHER -> "Entreprise inconnue"

\* json.NewEncoder(w).Encode(data) for the revision's EntrepriseResponse
\* (nom_complet is omitempty and never set).
EncodeData(rv, d) ==
    "{" \o Member("denomination", d.denomination)
    \o (IF rv \in ExistRevs
        THEN "," \o Member("siren", d.siren) \o "," \o Member("siret", d.siret)
             \o "," \o Member("tva", d.tva)
        ELSE "")
    \o ",\"adresse_postale_legale\":{" \o Member("ville", d.ville) \o ","
    \o Member("code_postal", d.code_postal) \o "}}\n"

\* LookupResponse writing the error's text on every error.
LookupResponse_echo(rv, old, f) ==
    IF ~f.err.nil
    THEN Respond(old, IF IsNotFound(rv, f.err) THEN 404 ELSE 500, EncodeMap("error", f.err.msg))
    ELSE Respond(old, 200, EncodeData(rv, f.data))

\* entrepriseHandler after the fetch returned (part_001 178-192).
LookupResponse(rv, old, f) ==
    IF ~f.err.nil
    THEN IF IsNotFound(rv, f.err)
         THEN Respond(old, 404, EncodeMap("error", NotFoundMsg(rv)))
         ELSE Respond(old, 500, EncodeMap("error", f.err.msg))
    ELSE Respond(old, 200, EncodeData(rv, f.data))

\* The line entrepriseHandler logs after the fetch returned (part_001 179
\* and 190; main.go 189, 409, 617; part_000 192; part_002 332; part_001 571).
LookupLog(rv, f) ==
    IF ~f.err.nil THEN <<"Erreur : " \o f.err.msg>>
    ELSE CASE rv \in ExistRevs ->
                <<"Trouvé : " \o f.data.denomination \o " (SIREN: " \o f.data.siren \o ")">>
           [] rv = "main1" ->
                <<"Données trouvées : " \o f.data.denomination \o " - " \o f.data.ville>>
           [] rv = "p000" -> <<"Données renvoyées : " \o f.data.denomination>>
           [] rv = "p002b" ->
                <<"Succès : " \o f.data.denomination \o " (" \o f.data.ville \o ")">>
           [] OTHER ->
                <<"Données trouvées : " \o f.data.denomination \o " (" \o f.data.ville \o ")">>

\* part_001 479-482: fetchSocieteComData returns before any request when the
\* token is not in the environment.
TokenMissing(rv, e) == rv = "p001b" /\ e.SOCIETE_API_TOKEN = ""

TokenMissingErr == Errorf("token API Societe.com manquant dans les variables d'environnement")

----------------------------------------------------------------------------
(* Email Request Validator and Message Composer *)

NoEmail == [to |-> "", subject |-> "", body |-> "",
            attachment_name |-> "", attachment_data |-> ""]

\* The length of a line of the attachment (part_001 72-74).
LineLen == 76

boundary == "MyBoundarySeparation12345"

RECURSIVE Repeat(_, _)
\* s written k times
Repeat(s, k) ==
    IF k = 0 THEN ""
    ELSE IF k = 1 THEN s
    ELSE Repeat(s, k \div 2) \o Repeat(s, k - (k \div 2))

\* A base64 payload of n characters.
Payload(n) == SubSeq(Repeat("JVBERi0xLjQK", (n \div 12) + 1), 1, n)

\* The lengths of the attachments sent: one character, a full line, one
\* character more, two full lines, and the longest payload.
PayloadLens == {1, LineLen, LineLen + 1, 2 * LineLen, MaxPayload}

\* The request bodies that are JSON objects of string fields. A body may hold
\* a line that starts like a boundary marker, an attachment name a line break,
\* a subject a line break followed by a header line or by an empty line.
Emails ==
    [to : {"", "client@example.com"},
     subject : {"", "Devis"},
     body : {"", "Bonjour", "Bonjour\r\n--" \o boundary \o "\r\nfin"},
     attachment_name : {"", "devis.pdf", "devis.pdf\r\nX-Injected: 1"},
     attachment_data : {"", "JVBERi0xLjQK"}]
    \cup {[to |-> "client@example.com", subject |-> "Devis", body |-> "Bonjour",
           attachment_name |-> "devis.pdf", attachment_data |-> Payload(n)] :
          n \in PayloadLens}
    \cup {[to |-> "client@example.com", subject |-> sub, body |-> "Bonjour",
           attachment_name |-> "", attachment_data |-> ""] :
          sub \in {"Devis\r\nBcc: tiers@example.com", "Devis\r\n\r\nBonjour"}}

RenderEmail(e) ==
    "{" \o Join(Opt("to", e.to) \o Opt("subject", e.subject) \o Opt("body", e.body)
                \o Opt("attachment_name", e.attachment_name)
                \o Opt("attachment_data", e.attachment_data), ",") \o "}"

RenderedEmails == {<<RenderEmail(e), e>> : e \in Emails}

EmailBodies == {p[1] : p \in RenderedEmails}

\* The bodies of the requests sent to the send-email route: the objects,
\* two bodies that go on after the end of the object (a complete message
\* and one without its recipient, each followed by other text), and two
\* that are not JSON.
SendBodies ==
    EmailBodies
    \cup {RenderEmail([NoEmail EXCEPT !.to = t, !.subject = "Devis", !.body = "Bonjour"])
             \o "<br />" : t \in {"client@example.com", ""}}
    \cup {"", "oops"}

\* json.NewDecoder(r.Body).Decode(&req) returns no error (part_001 205-206,
\* main.go 632-633): the decoder reads the first JSON value of the body and
\* leaves what follows it unread, so the body is an object of string fields
\* or starts with one.
IsEmailJson(b) == \E p \in EmailBodies : HasPrefix(b, p)

\* The request the decoder fills from the object the body starts with (an
\* object ends at its closing brace). EmailRequest of main.go 490-494 has no
\* attachment fields, so they are dropped there.
DecodeEmail(rv, b) ==
    LET e == (CHOOSE p \in RenderedEmails : HasPrefix(b, p[1]))[2] IN
    IF rv = "main3"
    THEN [e EXCEPT !.attachment_name = "", !.attachment_data = ""]
    ELSE e

RECURSIVE splitLines_ge(_)
\* splitLines cutting a line off while at least a full line is left.
splitLines_ge(s) ==
    IF Len(s) >= LineLen
    THEN SubSeq(s, 1, LineLen) \o "\r\n" \o splitLines_ge(SubSeq(s, LineLen + 1, Len(s)))
    ELSE s

RECURSIVE splitLines(_)
\* part_001 70-78. len(s) and the slices s[:76] and s[76:] count bytes: a
\* line ends after its 76th byte, between the two bytes of a letter when
\* that byte is the first of the two.
splitLines(s) ==
    Only({IF ByteLen(x) > LineLen
          THEN Only({IF ByteLen(SubSeq(x, 1, n)) = LineLen
                     THEN SubSeq(x, 1, n) \o "\r\n" \o splitLines(SubSeq(x, n + 1, Len(x)))
                     ELSE Only({SubSeq(x, 1, n) \o SubSeq(b, 1, 1) \o "\r\n"
                                \o splitLines(SubSeq(b, 2, 2) \o SubSeq(x, n + 2, Len(x))) :
                                b \in {Utf8(SubSeq(x, n + 1, n + 1))}}) :
                     n \in {LineLen - CHOOSE k \in 0..LineLen :
                                        /\ LineLen - k < Len(x)
                                        /\ ByteLen(SubSeq(x, 1, LineLen - k)) <= LineLen
                                        /\ ByteLen(SubSeq(x, 1, LineLen - k + 1)) > LineLen}})
          ELSE x :
          x \in {s}})

\* part_001 244-249: the header map, in insertion order.
Headers(smtpUser, e) ==
    << <<"From", smtpUser>>, <<"To", e.to>>, <<"Subject", e.subject>>,
       <<"MIME-Version", "1.0">>,
       <<"Content-Type", "multipart/mixed; boundary=" \o boundary>> >>

\* Go leaves the iteration order of a map unspecified; the runtime of the
\* build (go 1.25) walks the eight slots of a small map from a random slot,
\* so a range over the five headers yields a rotation of the insertion order.
HeaderOrders == 0..4

Rotate(seq, k) == [i \in 1..Len(seq) |-> seq[((i - 1 + k) % Len(seq)) + 1]]

RECURSIVE HeaderLines(_)
\* part_001 251-254
HeaderLines(hs) ==
    IF Len(hs) = 0 THEN ""
    ELSE hs[1][1] \o ": " \o hs[1][2] \o "\r\n" \o HeaderLines(Tail(hs))

\* part_001 264-276
AttachmentPart(e) ==
    IF e.attachment_data # "" /\ e.attachment_name # ""
    THEN "--" \o boundary \o "\r\n"
         \o "Content-Type: application/pdf\r\n"
         \o "Content-Transfer-Encoding: base64\r\n"
         \o "Content-Disposition: attachment; filename=\""
         \o ReplaceAll(e.attachment_name, "\n", "") \o "\"\r\n"
         \o "\r\n"
         \o splitLines(e.attachment_data) \o "\r\n"
    ELSE ""

\* part_001 240-278: the MIME message, the headers ranged over in order k.
Compose_p001a(k, smtpUser, e) ==
    HeaderLines(Rotate(Headers(smtpUser, e), k))
    \o "\r\n"
    \o "--" \o boundary \o "\r\n"
    \o "Content-Type: text/plain; charset=\"utf-8\"\r\n"
    \o "Content-Transfer-Encoding: 7bit\r\n"
    \o "\r\n"
    \o e.body \o "\r\n"
    \o AttachmentPart(e)
    \o "--" \o boundary \o "--\r\n"

\* main.go 660-665
Compose_main3(e) ==
    "To: " \o e.to \o "\r\n"
    \o "Subject: " \o e.subject \o "\r\n"
    \o "MIME-Version: 1.0\r\n"
    \o "Content-Type: text/plain; charset=\"UTF-8\"\r\n"
    \o "\r\n"
    \o e.body \o "\r\n"

Compose(rv, k, smtpUser, e) ==
    IF rv = "p001a" THEN Compose_p001a(k, smtpUser, e) ELSE Compose_main3(e)

\* MethodAllowed letting GET through as well.
MethodAllowed_get(m) == m \in {"POST", "GET"}

\* part_001 199 (main.go 626): r.Method != http.MethodPost
MethodAllowed(m) == m = "POST"

\* part_001 212 (main.go 639)
MissingField(e) == e.to = "" \/ e.subject = "" \/ e.body = ""

\* UsesImplicitTLS taking the submission port for an implicit-TLS port too.
UsesImplicitTLS_submission(port) == port \in {"465", "587"}

\* part_001 288 (main.go 673): smtpPort == "465"
UsesImplicitTLS(port) == port = "465"

\* ConfigIncomplete without the test of the password.
ConfigIncomplete_nopass(ev) ==
    ev.SMTP_HOST = "" \/ ev.SMTP_PORT = "" \/ ev.SMTP_ADMIN_EMAIL = ""

\* part_001 226 (main.go 653)
ConfigIncomplete(ev) ==
    ev.SMTP_HOST = "" \/ ev.SMTP_PORT = "" \/ ev.SMTP_ADMIN_EMAIL = "" \/ ev.SMTP_PASS = ""

\* The checks with the relay configuration tested before the request body.
FirstFailure_configfirst(rv, ev, q) ==
    IF ~MethodAllowed(q.method) THEN "method"
    ELSE IF ConfigIncomplete(ev) THEN "config"
    ELSE IF ~IsEmailJson(q.body) THEN "json"
    ELSE IF MissingField(DecodeEmail(rv, q.body)) THEN "fields"
    ELSE "none"

\* part_001 199-231 (main.go 626-658): the checks of sendEmailHandler in the
\* order it makes them, and the first that fails.
FirstFailure(rv, ev, q) ==
    IF ~MethodAllowed(q.method) THEN "method"
    ELSE IF ~IsEmailJson(q.body) THEN "json"
    ELSE IF MissingField(DecodeEmail(rv, q.body)) THEN "fields"
    ELSE IF ConfigIncomplete(ev) THEN "config"
    ELSE "none"

----------------------------------------------------------------------------
(* Configuration and requests *)

FullEnv == [SMTP_HOST |-> "smtp.example.com", SMTP_PORT |-> "465",
            SMTP_ADMIN_EMAIL |-> "admin@vintagestandards.fr", SMTP_PASS |-> "secret",
            SOCIETE_API_TOKEN |-> "3b8fe35c2885c14c1eaee3248c79472b",
            ALLOWED_ORIGINS |-> "", HOSTNAME |-> "info-go", PORT |-> "8091",
            ENVIRONMENT |-> "production"]

\* The environments a revision is started in. Only the variables the revision
\* reads are varied: the relay settings where there is a send-email route
\* (complete with port 465, 587 or 25, or one of the four missing), the registry token
\* where fetchSocieteComData reads it from the environment, the allowed
\* origins and the deployment's name where part_002 1-137 reads them.
Envs(rv) ==
    IF rv \in MailRevs
    THEN {FullEnv, [FullEnv EXCEPT !.SMTP_PORT = "587"], [FullEnv EXCEPT !.SMTP_PORT = "25"],
          [FullEnv EXCEPT !.SMTP_HOST = ""], [FullEnv EXCEPT !.SMTP_PORT = ""],
          [FullEnv EXCEPT !.SMTP_ADMIN_EMAIL = ""], [FullEnv EXCEPT !.SMTP_PASS = ""]}
    ELSE IF rv = "p001b" THEN {FullEnv, [FullEnv EXCEPT !.SOCIETE_API_TOKEN = ""]}
    ELSE IF rv = "p002a"
    THEN {FullEnv, [FullEnv EXCEPT !.ALLOWED_ORIGINS = "https://vintagestandards.fr"],
          [FullEnv EXCEPT !.ENVIRONMENT = ""]}
    ELSE {FullEnv}

\* The identifiers of the lookups; the last two are of a valid length and
\* cannot be put in a URL (a line feed, an escape that is not hexadecimal).
Identifiers ==
    {"123456789", "12345678901234", "12345", "", "12345678A", "introuvable123",
     "12345678\n", "1234%zz8901234"}

Origins == {"", "https://dev.vintagestandards.fr"}

\* A request: method, r.URL.Path, r.URL.RawQuery, the Origin header, the body.
HttpQuery(m, p, qy, o, b) ==
    [kind |-> "http", method |-> m, path |-> p, query |-> qy, origin |-> o, body |-> b]

HttpRequest(m, p, o, b) == HttpQuery(m, p, "", o, b)

NoRequest == [kind |-> "none", method |-> "", path |-> "", query |-> "", origin |-> "", body |-> ""]


\* The requests a client sends: lookups, send-email requests on the route and
\* on its alias, the health check, the service description, and the two
\* subtree paths asked without their final slash, lookups of identifiers
\* that change the registry URL, and paths that are not clean.
Requests ==
    {HttpRequest(m, EntreprisePrefix \o id, o, "") :
        m \in {"GET", "OPTIONS"}, id \in Identifiers, o \in Origins}
    \cup {HttpRequest(m, p, o, b) :
        m \in {"POST", "GET", "DELETE", "OPTIONS"}, p \in {"/api/send-email", "/Send/"},
        o \in Origins, b \in SendBodies}
    \cup {HttpRequest(m, "/health", o, "") : m \in {"GET", "OPTIONS"}, o \in Origins}
    \cup {HttpQuery("GET", "/info", qy, "", "") :
            qy \in {"", "type=timestamp", "type=System", "type=xml"}}
    \cup {HttpRequest(m, p, "", "") :
            m \in {"GET", "HEAD", "POST"}, p \in {"/api/entreprise", "/Send"}}
    \* identifiers a URL treats in a way of its own: a query that hides a
    \* malformed escape, a fragment that hides a line feed, a line feed before
    \* the fragment, a malformed escape in the fragment
    \cup {HttpRequest("GET", EntreprisePrefix \o id, "", "") :
            id \in {"123?%zz89", "1234#\n789", "12\n#45678", "1234#%zz9"}}
    \* paths the mux cleans before it matches them
    \cup {HttpRequest("GET", p, "", "") :
            p \in {"//health", "/health/../info", "/Send//",
                   "/api/entreprise/1234567//12345", "/api/entreprise/12 3//4"}}

Rcpts == {"a@x.fr", "b@y.fr"}

RECURSIVE Lists(_, _)
\* The lists of at most n elements of S
Lists(S, n) ==
    IF n = 0 THEN {<<>>}
    ELSE Lists(S, n - 1) \cup {Append(l, x) : l \in {m \in Lists(S, n - 1) : Len(m) = n - 1}, x \in S}

NoSmtp == [caller |-> "none", path |-> "none", auth |-> FALSE, from |-> "", to |-> <<>>, msg |-> "",
           conn |-> "none", client |-> "none", hello |-> "no", ext |-> FALSE,
           i |-> 1, steps |-> <<>>, failed |-> "", defers |-> <<>>, returned |-> FALSE]

Init ==
    /\ rev \in Revisions
    /\ env \in Envs(rev)
    /\ pc = [r \in Reqs |-> "idle"]
    /\ req = [r \in Reqs |-> NoRequest]
    /\ up = [r \in Reqs |-> NoAnswer]
    /\ calls = [r \in Reqs |-> 0]
    /\ data = [r \in Reqs |-> NoData]
    /\ err = [r \in Reqs |-> NoErr]
    /\ resp = [r \in Reqs |-> NoResp]
    /\ log = [r \in Reqs |-> <<>>]
    /\ smtp = [r \in Reqs |-> NoSmtp]

----------------------------------------------------------------------------
(* Inbound requests *)

\* A client's request reaches the server.
Arrive(r, q) ==
    /\ pc[r] = "idle"
    /\ req' = [req EXCEPT ![r] = q]
    /\ pc' = [pc EXCEPT ![r] = "mw"]
    /\ UNCHANGED <<rev, env, up, calls, data, err, resp, log, smtp>>

NewRequest(r) == \E q \in Requests : Arrive(r, q)

\* A middleware that sets the headers and hands every request, the preflight
\* included, to the router.
corsMiddleware_forward(r) ==
    /\ pc[r] = "mw"
    /\ resp' = [resp EXCEPT ![r] = [status |-> 0, body |-> "",
                                    headers |-> CorsHeaders(rev, env, req[r].origin)]]
    /\ pc' = [pc EXCEPT ![r] = "mux"]
    /\ UNCHANGED <<rev, env, req, up, calls, data, err, log, smtp>>

\* part_001 82-108 (and the same function of every revision)
corsMiddleware(r) ==
    /\ pc[r] = "mw"
    /\ LET h == CorsHeaders(rev, env, req[r].origin) IN
       IF req[r].method = "OPTIONS"
       THEN /\ resp' = [resp EXCEPT ![r] = [status |-> 200, body |-> "", headers |-> h]]
            /\ pc' = [pc EXCEPT ![r] = "done"]
       ELSE /\ resp' = [resp EXCEPT ![r] = [status |-> 0, body |-> "", headers |-> h]]
            /\ pc' = [pc EXCEPT ![r] = "mux"]
    /\ UNCHANGED <<rev, env, req, up, calls, data, err, log, smtp>>

\* part_001 360-363
healthHandler(r) ==
    /\ pc[r] = "mux"
    /\ Route(rev, req[r].path) = "health"
    /\ resp' = [resp EXCEPT ![r] = Respond(@, 200, "{\"status\":\"ok\",\"code\":200}\n")]
    /\ pc' = [pc EXCEPT ![r] = "done"]
    /\ UNCHANGED <<rev, env, req, up, calls, data, err, log, smtp>>

\* r.URL.Query().Get("type") for the queries of the requests.
QueryType(qy) == IF HasPrefix(qy, "type=") THEN TrimPrefix(qy, "type=") ELSE ""

\* json.NewEncoder(w).Encode(InfoResponse{...}) of infoHandler: the status
\* and the body. part_001 365-368 and five other revisions answer a fixed
\* description; main.go 199-217 and part_002 59-97 select the data with the
\* query parameter type and read the environment (the keys of a map are
\* encoded in sorted order; Message has no omitempty in these two).
InfoAnswer(rv, ev, qy) ==
    LET t == ToLower(IF QueryType(qy) = "" THEN "system" ELSE QueryType(qy)) IN
    CASE rv = "main1" ->
           IF t = "system"
           THEN <<200, "{\"status\":\"success\",\"message\":\"\",\"data\":{"
                       \o Member("env", ev.ENVIRONMENT) \o ",\"version\":\"1.0.0\"}}\n">>
           ELSE IF t = "timestamp"
           THEN <<200, "{\"status\":\"success\",\"message\":\"\",\"data\":{"
                       \o "\"timestamp\":\"2026-02-02T12:00:00Z\"}}\n">>
           ELSE <<400, "{\"status\":\"error\",\"message\":\"\",\"error\":\"Type inconnu\"}\n">>
      [] rv = "p002a" ->
           IF t = "system"
           THEN <<200, "{\"status\":\"success\",\"message\":\"Infos récupérées avec succès\","
                       \o "\"data\":{" \o Member("environment", ev.ENVIRONMENT)
                       \o "," \o Member("hostname", ev.HOSTNAME)
                       \o "," \o Member("port", ev.PORT) \o ",\"version\":\"1.0.0\"}}\n">>
           ELSE IF t = "timestamp"
           THEN <<200, "{\"status\":\"success\",\"message\":\"Infos récupérées avec succès\","
                       \o "\"data\":{\"timestamp\":\"2026-01-29T00:00:00Z\"}}\n">>
           ELSE <<400, "{\"status\":\"error\",\"message\":\"\","
                       \o "\"error\":\"Type de requête non supporté\"}\n">>
      [] OTHER -> <<200, "{\"status\":\"success\",\"data\":{\"version\":\"1.0.0\"}}\n">>

\* part_001 365-368 (main.go 199-217, 419-422, 751-754; part_000 202-205;
\* part_001 581-584; part_002 59-97, 342-345)
infoHandler(r) ==
    /\ pc[r] = "mux"
    /\ Route(rev, req[r].path) = "info"
    /\ \E a \in {InfoAnswer(rev, env, req[r].query)} :
         resp' = [resp EXCEPT ![r] = Respond(@, a[1], a[2])]
    /\ pc' = [pc EXCEPT ![r] = "done"]
    /\ UNCHANGED <<rev, env, req, up, calls, data, err, log, smtp>>

\* html.EscapeString as http.Redirect applies it to the target.
htmlEscape(t) ==
    Only({ReplaceAll(d, "'", "&#39;") :
          d \in {ReplaceAll(c, "\"", "&#34;") :
          c \in {ReplaceAll(b, ">", "&gt;") :
          b \in {ReplaceAll(a, "<", "&lt;") :
          a \in {ReplaceAll(t, "&", "&amp;")}}}}})

\* The target of the mux's redirect, url.URL{Path, RawQuery}.String(): for a
\* subtree pattern asked without its slash the clean path with the slash;
\* for a path that was not clean the clean form of its escaped path, which
\* String() escapes once more.
Location(rv, q) ==
    Only({(IF (c \o "/") \in Subtrees(rv) THEN Escape(c \o "/", "path")
           ELSE Escape(Escape(c, "path"), "path"))
          \o (IF q.query = "" THEN "" ELSE "?" \o q.query) :
          c \in {cleanPath(q.path)}})

\* http.ServeMux answering with a redirect (the patterns are registered at
\* part_001 379-385): http.Redirect with 301 to the target; a GET or a HEAD
\* gets a content type, a GET a short HTML body.
RedirectHandler(r) ==
    /\ pc[r] = "mux"
    /\ Route(rev, req[r].path) = "redirect"
    /\ \E u \in {Location(rev, req[r])} :
         resp' = [resp EXCEPT ![r] =
                 [status |-> 301,
                  body |-> IF req[r].method = "GET"
                           THEN "<a href=\"" \o htmlEscape(u) \o "\">Moved Permanently</a>.\n\n"
                           ELSE "",
                  headers |-> [@.headers EXCEPT
                                 !.location = u,
                                 !.contentType = IF req[r].method \in {"GET", "HEAD"}
                                                 THEN "text/html; charset=utf-8" ELSE @]]]
    /\ pc' = [pc EXCEPT ![r] = "done"]
    /\ UNCHANGED <<rev, env, req, up, calls, data, err, log, smtp>>

\* A path no pattern matches: part_002 106-113 (errorHandler on "/"), and
\* http.NotFound in the revisions that register no "/".
errorHandler(r) ==
    /\ pc[r] = "mux"
    /\ Route(rev, req[r].path) \in {"error", "notFound"}
    /\ resp' = [resp EXCEPT ![r] =
                 IF rev = "p002a"
                 THEN Respond(@, 404, "{\"status\":\"error\",\"message\":\"\",\"error\":\"Route non trouvée\"}\n")
                 ELSE [status |-> 404, body |-> "404 page not found\n",
                       headers |-> [@.headers EXCEPT !.contentType = "text/plain; charset=utf-8"]]]
    /\ pc' = [pc EXCEPT ![r] = "done"]
    /\ UNCHANGED <<rev, env, req, up, calls, data, err, log, smtp>>

----------------------------------------------------------------------------
(* Lookup *)

numidOf(r) == TrimPrefix(req[r].path, EntreprisePrefix)

\* The line entrepriseHandler logs before the fetch (part_001 174).
SearchLog(rv, numid) ==
    CASE rv \in ExistRevs -> "Vérification existence (SIREN/SIRET) : " \o numid
      [] rv = "p002b" -> "Recherche SIRET : " \o numid
      [] OTHER -> "Appel API Societe.com pour le SIRET : " \o numid

\* The URL the revision's fetch function builds (part_001 113; main.go 96).
RegistryUrl(rv, numid) ==
    IF rv \in ExistRevs THEN ExistUrl(numid) ELSE EtablissementUrl(numid)

\* part_001 161-176 (main.go 155-171, 380-395, 588-603; part_000 164-178;
\* part_002 302-317; part_001 541-556): validation, then the fetch function
\* builds its request (part_001 113-118), returning the error of
\* http.NewRequest when the URL does not parse, and the call to the registry
\* is issued.
entrepriseHandler(r) ==
    /\ pc[r] = "mux"
    /\ Route(rev, req[r].path) = "entreprise"
    /\ \E numid \in {numidOf(r)}, e \in {NewRequestErr(RegistryUrl(rev, numidOf(r)))} :
       IF ~ValidLength(rev, numid)
       THEN /\ resp' = [resp EXCEPT ![r] =
                         Respond(@, 400, EncodeMap("error", InvalidIdentifierMsg(rev)))]
            /\ pc' = [pc EXCEPT ![r] = "done"]
            /\ UNCHANGED <<calls, err, log>>
       ELSE IF TokenMissing(rev, env)
       THEN /\ err' = [err EXCEPT ![r] = TokenMissingErr]
            /\ log' = [log EXCEPT ![r] = @ \o <<SearchLog(rev, numid),
                                                "Erreur : " \o TokenMissingErr.msg>>]
            /\ resp' = [resp EXCEPT ![r] =
                         Respond(@, 500, EncodeMap("error", TokenMissingErr.msg))]
            /\ pc' = [pc EXCEPT ![r] = "done"]
            /\ UNCHANGED calls
       ELSE IF e # ""
       THEN \E f \in {Fetched(NoData, Errorf(e), <<>>)} :
            /\ err' = [err EXCEPT ![r] = f.err]
            /\ log' = [log EXCEPT ![r] = @ \o <<SearchLog(rev, numid)>> \o LookupLog(rev, f)]
            /\ resp' = [resp EXCEPT ![r] = LookupResponse(rev, @, f)]
            /\ pc' = [pc EXCEPT ![r] = "done"]
            /\ UNCHANGED calls
       ELSE /\ log' = [log EXCEPT ![r] = @ \o <<SearchLog(rev, numid)>>]
            /\ calls' = [calls EXCEPT ![r] = @ + 1]
            /\ resp' = [resp EXCEPT ![r] = SetJson(@)]
            /\ pc' = [pc EXCEPT ![r] = "registry"]
            /\ UNCHANGED err
    /\ UNCHANGED <<rev, env, req, up, data, smtp>>

\* A lookup that issues the call again when the registry could not be
\* reached.
fetchSocieteData_retry(r) ==
    /\ pc[r] = "registry"
    /\ \E a \in Answers :
         IF a.kind = "transport" /\ calls[r] < 2
         THEN /\ calls' = [calls EXCEPT ![r] = @ + 1]
              /\ UNCHANGED <<rev, env, req, up, data, err, log, resp, pc, smtp>>
         ELSE LET f == fetch(rev, numidOf(r), a) IN
              /\ up' = [up EXCEPT ![r] = a]
              /\ data' = [data EXCEPT ![r] = f.data]
              /\ err' = [err EXCEPT ![r] = f.err]
              /\ log' = [log EXCEPT ![r] = @ \o f.log \o LookupLog(rev, f)]
              /\ resp' = [resp EXCEPT ![r] = LookupResponse(rev, @, f)]
              /\ pc' = [pc EXCEPT ![r] = "done"]
              /\ UNCHANGED <<rev, env, req, calls, smtp>>

\* A lookup served from the result another request left behind for the same
\* identifier (a process-wide cache).
ClientDo_cached(r, a) ==
    /\ pc[r] = "registry"
    /\ \E f \in {IF \E o \in Reqs \ {r} :
                       pc[o] = "done" /\ req[o].path = req[r].path /\ data[o] # NoData
                  THEN Fetched(data[CHOOSE o \in Reqs \ {r} :
                                     pc[o] = "done" /\ req[o].path = req[r].path
                                     /\ data[o] # NoData],
                               NoErr, <<>>)
                  ELSE fetch(rev, numidOf(r), a)} :
       /\ up' = [up EXCEPT ![r] = a]
       /\ data' = [data EXCEPT ![r] = f.data]
       /\ err' = [err EXCEPT ![r] = f.err]
       /\ log' = [log EXCEPT ![r] = @ \o f.log \o LookupLog(rev, f)]
       /\ resp' = [resp EXCEPT ![r] = LookupResponse(rev, @, f)]
    /\ pc' = [pc EXCEPT ![r] = "done"]
    /\ UNCHANGED <<rev, env, req, calls, smtp>>

\* client.Do returns with the answer a, the fetch function finishes and
\* entrepriseHandler writes the response (part_001 124-157 and 178-192).
ClientDo(r, a) ==
    /\ pc[r] = "registry"
    /\ \E f \in {fetch(rev, numidOf(r), a)} :
       /\ up' = [up EXCEPT ![r] = a]
       /\ data' = [data EXCEPT ![r] = f.data]
       /\ err' = [err EXCEPT ![r] = f.err]
       /\ log' = [log EXCEPT ![r] = @ \o f.log \o LookupLog(rev, f)]
       /\ resp' = [resp EXCEPT ![r] = LookupResponse(rev, @, f)]
    /\ pc' = [pc EXCEPT ![r] = "done"]
    /\ UNCHANGED <<rev, env, req, calls, smtp>>

\* The registry answers the call in one of the ways it can.
fetchSocieteData(r) == \E a \in Answers : ClientDo(r, a)

----------------------------------------------------------------------------
(* Mail Transport *)

\* The error each step of the session fails with.
StepErr(step) ==
    CASE step = "DIAL" -> "dial tcp: lookup smtp.example.com: no such host"
      [] step = "NEWCLIENT" -> "554 5.3.2 Service not available"
      [] step = "EHLO" -> "EOF"
      [] step = "AUTH" -> "535 5.7.8 Authentication failed"
      [] step = "MAIL" -> "550 5.7.1 Sender rejected"
      [] step = "RCPT" -> "550 5.1.1 User unknown"
      [] step = "DATA" -> "554 5.5.1 No valid recipients"
      [] step = "WRITE" -> "write tcp: broken pipe"
      [] step = "CLOSE" -> "552 5.3.4 Message size exceeds limit"
      [] step = "QUIT" -> "421 4.4.2 Connection timed out"
      [] OTHER -> "EOF"

InSeq(x, seq) == \E i \in 1..Len(seq) : seq[i] = x

\* sendMail465 returns: the calls deferred so far run (part_001 321, 327).
\* client.Close() closes the session and its connection, conn.Close() the
\* connection; closing what is closed already only returns an error.
Deferred(s) ==
    [s EXCEPT !.client = IF InSeq("client.Close", s.defers) /\ @ = "open" THEN "closed" ELSE @,
              !.conn = IF (InSeq("client.Close", s.defers) \/ InSeq("conn.Close", s.defers))
                          /\ @ = "open"
                       THEN "closed" ELSE @,
              !.defers = <<>>,
              !.returned = TRUE]

\* part_001 296-305: sendEmailHandler after the transport returned.
SendResponse(old, e) ==
    IF ~e.nil THEN Respond(old, 500, EncodeMap("error", "Échec de l'envoi : " \o e.msg))
    ELSE Respond(old, 200, EncodeMap("message", "Email envoyé avec succès"))

SendLog(e, to) ==
    IF ~e.nil THEN <<"Erreur lors de l'envoi SMTP : " \o e.msg>>
    ELSE <<"Email envoyé avec succès à : " \o to>>

\* sendMail465 returns e to its caller; when the caller is sendEmailHandler,
\* the handler writes the response.
Return(r, s, e) ==
    /\ smtp' = [smtp EXCEPT ![r] = Deferred(s)]
    /\ err' = [err EXCEPT ![r] = e]
    /\ pc' = [pc EXCEPT ![r] = "done"]
    /\ IF s.caller = "handler"
       THEN /\ resp' = [resp EXCEPT ![r] = SendResponse(@, e)]
            /\ log' = [log EXCEPT ![r] = @ \o SendLog(e, s.to[1])]
       ELSE UNCHANGED <<resp, log>>

\* The step fails: sendMail465 returns its error.
Fail(r, s, step) == Return(r, [s EXCEPT !.failed = step], Errorf(StepErr(step)))

\* The step succeeded: the session goes on at the next step.
Goto(r, s, next) ==
    /\ smtp' = [smtp EXCEPT ![r] = s]
    /\ pc' = [pc EXCEPT ![r] = next]
    /\ UNCHANGED <<err, resp, log>>

Issue(s, step) == [s EXCEPT !.steps = Append(@, step)]

\* The arguments of a call of sendMail465.
Session(caller, path, auth, from, to, msg) ==
    [NoSmtp EXCEPT !.caller = caller, !.path = path, !.auth = auth, !.from = from,
                   !.to = to, !.msg = msg]

\* part_001 196-294 (main.go 623-679): method, JSON, required fields and relay
\* configuration are checked, the message is composed and handed to the
\* transport the port selects; k is the order in which the range over the
\* header map yields its entries.
sendEmail(r, k) ==
    /\ pc[r] = "mux"
    /\ Route(rev, req[r].path) = "sendEmail"
    /\ IF FirstFailure(rev, env, req[r]) = "method"
       THEN /\ resp' = [resp EXCEPT ![r] =
                 Respond(@, 405, EncodeMap("error", "Méthode non autorisée. Utilisez POST."))]
            /\ pc' = [pc EXCEPT ![r] = "done"]
            /\ UNCHANGED <<log, smtp>>
       ELSE IF FirstFailure(rev, env, req[r]) = "json"
       THEN /\ resp' = [resp EXCEPT ![r] = Respond(@, 400, EncodeMap("error", "JSON invalide"))]
            /\ pc' = [pc EXCEPT ![r] = "done"]
            /\ UNCHANGED <<log, smtp>>
       ELSE LET e == DecodeEmail(rev, req[r].body)
                cfg == "Config SMTP -> Host: " \o env.SMTP_HOST \o " | Port: " \o env.SMTP_PORT
                       \o " | User: " \o env.SMTP_ADMIN_EMAIL
            IN
            IF FirstFailure(rev, env, req[r]) = "fields"
            THEN /\ resp' = [resp EXCEPT ![r] = Respond(@, 400,
                      EncodeMap("error", "Les champs 'to', 'subject' et 'body' sont requis"))]
                 /\ pc' = [pc EXCEPT ![r] = "done"]
                 /\ UNCHANGED <<log, smtp>>
            ELSE IF FirstFailure(rev, env, req[r]) = "config"
            THEN /\ resp' = [resp EXCEPT ![r] = Respond(@, 500,
                      EncodeMap("error", "Configuration serveur email incomplète"))]
                 /\ log' = [log EXCEPT ![r] = @ \o <<cfg, "Erreur : Configuration SMTP incomplète (ENV)">>]
                 /\ pc' = [pc EXCEPT ![r] = "done"]
                 /\ UNCHANGED smtp
            ELSE /\ smtp' = [smtp EXCEPT ![r] =
                      Session("handler",
                              IF UsesImplicitTLS(env.SMTP_PORT) THEN "465" ELSE "starttls",
                              TRUE, env.SMTP_ADMIN_EMAIL, <<e.to>>,
                              Compose(rev, k, env.SMTP_ADMIN_EMAIL, e))]
                 /\ log' = [log EXCEPT ![r] = @ \o <<cfg>>
                      \o (IF rev = "p001a"
                          THEN IF e.attachment_data # ""
                               THEN <<"Backend : PDF reçu ! Taille: "
                                      \o ToString(Len(e.attachment_data)) \o " caractères">>
                               ELSE <<"Backend : Pas de données PDF reçues">>
                          ELSE <<>>)
                      \o (IF UsesImplicitTLS(env.SMTP_PORT)
                          THEN <<"Connexion SSL Implicite détectée (Port 465)">>
                          ELSE <<"Connexion STARTTLS standard">>)]
                 /\ pc' = [pc EXCEPT ![r] =
                           IF UsesImplicitTLS(env.SMTP_PORT) THEN "dial" ELSE "starttls"]
                 /\ resp' = [resp EXCEPT ![r] = SetJson(@)]
    /\ UNCHANGED <<rev, env, req, up, calls, data, err>>

\* The handler, the map order being any of those the runtime can pick.
sendEmailHandler(r) == \E k \in HeaderOrders : sendEmail(r, k)

\* net/smtp's SendMail (part_001 293): the STARTTLS submission, which
\* succeeds or fails at one of its steps.
SendMail(r) ==
    /\ pc[r] = "starttls"
    /\ \E e \in {NoErr} \cup {Errorf(StepErr(st)) : st \in {"DIAL", "AUTH", "MAIL", "RCPT", "DATA"}} :
         /\ err' = [err EXCEPT ![r] = e]
         /\ resp' = [resp EXCEPT ![r] = SendResponse(@, e)]
         /\ log' = [log EXCEPT ![r] = @ \o SendLog(e, smtp[r].to[1])]
    /\ calls' = [calls EXCEPT ![r] = @ + 1]
    /\ pc' = [pc EXCEPT ![r] = "done"]
    /\ UNCHANGED <<rev, env, req, up, data, smtp>>

\* sendMail465 called with a recipient list of its own (any caller of the
\* function; sendEmailHandler always passes one recipient), and with a short
\* message or one that is longer than the buffer the session writes through.
sendMail465Call(r) ==
    /\ rev \in MailRevs
    /\ pc[r] = "idle"
    /\ \E to \in Lists(Rcpts, MaxRcpt), auth \in BOOLEAN,
          msg \in {"Subject: Devis\r\n\r\nBonjour\r\n",
                   "Subject: Devis\r\n\r\n" \o Repeat("Bonjour, voici le devis.\r\n", 160)} :
         /\ smtp' = [smtp EXCEPT ![r] =
              Session("call", "465", auth, "admin@vintagestandards.fr", to, msg)]
         /\ req' = [req EXCEPT ![r] = [NoRequest EXCEPT !.kind = "call"]]
    /\ pc' = [pc EXCEPT ![r] = "dial"]
    /\ UNCHANGED <<rev, env, up, calls, data, err, resp, log>>

\* part_001 317-321: tls.Dial, the one connection of the delivery
Dial(r) ==
    /\ pc[r] = "dial"
    /\ \/ Fail(r, smtp[r], "DIAL")
       \/ Goto(r, [smtp[r] EXCEPT !.conn = "open", !.defers = Append(@, "conn.Close")],
               "newclient")
    /\ calls' = [calls EXCEPT ![r] = @ + 1]
    /\ UNCHANGED <<rev, env, req, up, data>>

\* NewClient without the defer of client.Close().
NewClient_nodefer(r) ==
    /\ pc[r] = "newclient"
    /\ \/ Fail(r, smtp[r], "NEWCLIENT")
       \/ Goto(r, [smtp[r] EXCEPT !.client = "open"],
               IF smtp[r].auth THEN "extension" ELSE "mail")
    /\ UNCHANGED <<rev, env, req, up, calls, data>>

\* part_001 323-327: smtp.NewClient
NewClient(r) ==
    /\ pc[r] = "newclient"
    /\ \/ Fail(r, smtp[r], "NEWCLIENT")
       \/ Goto(r, [smtp[r] EXCEPT !.client = "open", !.defers = Append(@, "client.Close")],
               IF smtp[r].auth THEN "extension" ELSE "mail")
    /\ UNCHANGED <<rev, env, req, up, calls, data>>

\* part_001 329-330: client.Extension("AUTH") greets the relay first
\* (net/smtp's hello): it says EHLO, and the relay answers with or without
\* the AUTH extension, or does not accept the greeting.
Extension(r) ==
    /\ pc[r] = "extension"
    /\ LET s == Issue(smtp[r], "EHLO") IN
       \/ Goto(r, s, "helo")
       \/ Goto(r, [s EXCEPT !.hello = "ok", !.ext = FALSE], "mail")
       \/ Goto(r, [s EXCEPT !.hello = "ok", !.ext = TRUE], "auth")
    /\ UNCHANGED <<rev, env, req, up, calls, data>>

\* net/smtp's hello after an EHLO that was not accepted: it says HELO, which
\* gives no extension. When this fails too the error stays in the client:
\* Extension answers false (part_001 330) and client.Mail returns the error
\* (part_001 337-339) without a word to the relay.
Helo(r) ==
    /\ pc[r] = "helo"
    /\ LET s == Issue(smtp[r], "HELO") IN
       \/ Fail(r, s, "EHLO")
       \/ Goto(r, [s EXCEPT !.hello = "ok", !.ext = FALSE], "mail")
    /\ UNCHANGED <<rev, env, req, up, calls, data>>

\* part_001 331-333: client.Auth with the PLAIN mechanism, which starts on
\* a TLS connection to the host it was made for. It says AUTH with the
\* credentials: the connection breaks and the error is returned; or the
\* relay refuses them and the exchange is aborted before Auth returns; or
\* the relay accepts them.
Auth(r) ==
    /\ pc[r] = "auth"
    /\ LET s == Issue(smtp[r], "AUTH") IN
       \/ Return(r, [s EXCEPT !.failed = "AUTH"], Errorf("EOF"))
       \/ Goto(r, s, "abort")
       \/ Goto(r, s, "mail")
    /\ UNCHANGED <<rev, env, req, up, calls, data>>

\* client.Auth after a refusal (part_001 331): it says "*" to abort the
\* exchange and waits for the relay's answer, which it does not look at.
AuthAbort(r) ==
    /\ pc[r] = "abort"
    /\ Goto(r, Issue(smtp[r], "*"), "abortquit")
    /\ UNCHANGED <<rev, env, req, up, calls, data>>

\* client.Auth after the abort (part_001 331-333): it says QUIT, closing the
\* connection when the relay answers it and leaving it open when it does
\* not, and returns the refusal, which sendMail465 returns.
AuthQuit(r) ==
    /\ pc[r] = "abortquit"
    /\ LET s == [Issue(smtp[r], "QUIT") EXCEPT !.failed = "AUTH"] IN
       \/ Return(r, s, Errorf(StepErr("AUTH")))
       \/ Return(r, [s EXCEPT !.client = "closed", !.conn = "closed"], Errorf(StepErr("AUTH")))
    /\ UNCHANGED <<rev, env, req, up, calls, data>>

\* part_001 337-339: client.Mail. When the relay was not greeted yet (no
\* authentication was asked for) it greets it first, and says MAIL once the
\* greeting is done.
Mail(r) ==
    /\ pc[r] = "mail"
    /\ LET s == smtp[r] IN
       IF s.hello = "no"
       THEN \/ Goto(r, Issue(s, "EHLO"), "helo")
            \/ Goto(r, [Issue(s, "EHLO") EXCEPT !.hello = "ok"], "mail")
       ELSE \/ Fail(r, Issue(s, "MAIL"), "MAIL")
            \/ Goto(r, Issue(s, "MAIL"), IF Len(s.to) > 0 THEN "rcpt" ELSE "data")
    /\ UNCHANGED <<rev, env, req, up, calls, data>>

\* part_001 340-344: client.Rcpt for the next recipient of the list; after
\* the last one the loop is over.
Rcpt(r) ==
    /\ pc[r] = "rcpt"
    /\ LET s == smtp[r]
           t == Issue(s, "RCPT " \o s.to[s.i])
       IN \/ Fail(r, t, "RCPT")
          \/ Goto(r, [t EXCEPT !.i = @ + 1], IF s.i < Len(s.to) THEN "rcpt" ELSE "data")
    /\ UNCHANGED <<rev, env, req, up, calls, data>>

\* part_001 345-348: client.Data
Data(r) ==
    /\ pc[r] = "data"
    /\ LET s == Issue(smtp[r], "DATA") IN
       \/ Fail(r, s, "DATA")
       \/ Goto(r, s, "write")
    /\ UNCHANGED <<rev, env, req, up, calls, data>>

\* The session writes through a buffer of 4096 bytes (bufio's default size,
\* empty after the DATA command): a message whose bytes on the wire fit in
\* it is only copied there by w.Write and leaves with w.Close(). On the wire
\* the message has a period more for each line that starts with one, and a
\* carriage return more for each line feed the writer does not meet right
\* after a carriage return it took for the end of a line. It takes every
\* other one of a run of carriage returns for that, starting with the first
\* (textproto's dot writer is back in the middle of a line after the
\* second), so the line feed gets one when the run before it is even.
Buffered(msg) ==
    LET RECURSIVE run(_)
        run(i) == IF i >= 1 /\ SubSeq(msg, i, i) = "\r" THEN 1 + run(i - 1) ELSE 0
        dots == {i \in 1..Len(msg) :
                   /\ SubSeq(msg, i, i) = "."
                   /\ (i = 1 \/ SubSeq(msg, i - 1, i - 1) = "\n")}
        feeds == {i \in 1..Len(msg) :
                    /\ SubSeq(msg, i, i) = "\n"
                    /\ run(i - 1) % 2 = 0}
    IN ByteLen(msg) + Cardinality(dots) + Cardinality(feeds) <= 4096

\* part_001 349-352: w.Write(msg), which fails only when it has to send a
\* part of the message
Write(r) ==
    /\ pc[r] = "write"
    /\ LET s == Issue(smtp[r], "WRITE") IN
       \/ ~Buffered(s.msg) /\ Fail(r, s, "WRITE")
       \/ Goto(r, s, "close")
    /\ UNCHANGED <<rev, env, req, up, calls, data>>

\* part_001 353-356: w.Close(), the end of the data stream
Close(r) ==
    /\ pc[r] = "close"
    /\ LET s == Issue(smtp[r], "CLOSE") IN
       \/ Fail(r, s, "CLOSE")
       \/ Goto(r, s, "quit")
    /\ UNCHANGED <<rev, env, req, up, calls, data>>

\* part_001 357: return client.Quit(), which closes the connection once the
\* relay has answered.
Quit(r) ==
    /\ pc[r] = "quit"
    /\ LET s == Issue(smtp[r], "QUIT") IN
       \/ Fail(r, s, "QUIT")
       \/ Return(r, [s EXCEPT !.client = "closed", !.conn = "closed"], NoErr)
    /\ UNCHANGED <<rev, env, req, up, calls, data>>

\* The relay stops answering while the transport waits for it: tls.Dial
\* (part_001 317), the reads of the session (part_001 323-357) and
\* smtp.SendMail (part_001 293) are given no deadline, so the call blocks
\* and the handler with it. w.Write waits for the relay only when the
\* message does not fit in the buffer. A request that waits in tls.Dial or
\* in smtp.SendMail has made its connection to the relay.
RelaySilent(r) ==
    /\ \/ pc[r] \in {"starttls", "dial", "newclient", "extension", "helo", "auth", "abort",
                     "abortquit", "mail", "rcpt", "data", "close", "quit"}
       \/ pc[r] = "write" /\ ~Buffered(smtp[r].msg)
    /\ pc' = [pc EXCEPT ![r] = "blocked"]
    /\ calls' = [calls EXCEPT ![r] = IF pc[r] \in {"starttls", "dial"} THEN @ + 1 ELSE @]
    /\ UNCHANGED <<rev, env, req, up, data, err, resp, log, smtp>>

----------------------------------------------------------------------------
(* Specification *)

\* The server's work on request r: the middleware, the handlers and the
\* transports.
Serve(r) ==
        \/ corsMiddleware(r)
        \/ healthHandler(r)
        \/ infoHandler(r)
        \/ RedirectHandler(r)
        \/ errorHandler(r)
        \/ entrepriseHandler(r)
        \/ fetchSocieteData(r)
        \/ sendEmailHandler(r)
        \/ SendMail(r)
        \/ Dial(r)
        \/ NewClient(r)
        \/ Extension(r)
        \/ Helo(r)
        \/ Auth(r)
        \/ AuthAbort(r)
        \/ AuthQuit(r)
        \/ Mail(r)
        \/ Rcpt(r)
        \/ Data(r)
        \/ Write(r)
        \/ Close(r)
        \/ Quit(r)

\* One request, handled from its arrival to its response.
Next ==
    \E r \in Solo :
        \/ NewRequest(r)
        \/ sendMail465Call(r)
        \/ RelaySilent(r)
        \/ Serve(r)

Spec == Init /\ [][Next]_vars

\* The server under concurrent requests. net/http serves each request in a
\* goroutine of its own, so the steps of the requests in flight interleave
\* freely. The revision is the one of part_001 1-396, started with a complete
\* relay configuration, and the requests and the registry's answers are a few
\* of each kind.
FewRequests ==
    {HttpRequest("GET", "/health", "", ""),
     HttpRequest("GET", "/info", "", ""),
     HttpRequest("GET", "/Send", "", ""),
     HttpRequest("GET", "/favicon.ico", "", ""),
     HttpRequest("GET", EntreprisePrefix \o "123456789", "", ""),
     HttpRequest("POST", "/api/send-email", "",
                 RenderEmail([NoEmail EXCEPT !.to = "client@example.com",
                                             !.subject = "Devis", !.body = "Bonjour"]))}

\* The registry does not answer within the client's ten seconds, or answers
\* 404, or answers 200 with a payload.
FewAnswers ==
    {[kind |-> "transport", status |-> 0, body |-> "",
      cause |-> "context deadline exceeded (Client.Timeout exceeded while awaiting headers)"],
     [kind |-> "http", status |-> 404, body |-> "", cause |-> ""],
     [kind |-> "http", status |-> 200, cause |-> "",
      body |-> "{\"common\":{\"deno\":\"ACME SAS\",\"siren\":\"123456789\"}}"]}

\* The steps the server takes for request r.
Work(r) ==
        \/ corsMiddleware(r)
        \/ healthHandler(r)
        \/ infoHandler(r)
        \/ RedirectHandler(r)
        \/ errorHandler(r)
        \/ entrepriseHandler(r)
        \/ \E a \in FewAnswers : ClientDo(r, a)
        \/ sendEmailHandler(r)
        \/ SendMail(r)
        \/ Dial(r)
        \/ NewClient(r)
        \/ Extension(r)
        \/ Helo(r)
        \/ Auth(r)
        \/ AuthAbort(r)
        \/ AuthQuit(r)
        \/ Mail(r)
        \/ Rcpt(r)
        \/ Data(r)
        \/ Write(r)
        \/ Close(r)
        \/ Quit(r)

ConcurrentInit ==
    /\ Init
    /\ rev = "p001a"
    /\ env \in {FullEnv, [FullEnv EXCEPT !.SMTP_PORT = "587"]}

ConcurrentNext ==
    \E r \in Reqs :
        \/ \E q \in FewRequests : Arrive(r, q)
        \/ RelaySilent(r)
        \/ Work(r)

Concurrent == ConcurrentInit /\ [][ConcurrentNext]_vars

\* The server keeps working on a request as long as a step of it can be
\* taken: nothing suspends a handler's goroutine but the calls it waits on.
FairConcurrent == Concurrent /\ \A r \in Reqs : WF_vars(Work(r))

----------------------------------------------------------------------------
(* Properties *)

\* Request r is a lookup that reached entrepriseHandler.
Lookup(r) ==
    /\ req[r].kind = "http"
    /\ req[r].method # "OPTIONS"
    /\ Route(rev, req[r].path) = "entreprise"

\* The lookup of request r is over and the registry had answered it in full.
Answered(r) == Lookup(r) /\ pc[r] = "done" /\ up[r].kind = "http"

\* The registry's answer decoded to a payload.
Decoded(r) == Answered(r) /\ up[r].status = 200 /\ IsJson(up[r].body)

IsPrefix(a, b) == Len(a) <= Len(b) /\ SubSeq(b, 1, Len(a)) = a

\* The steps of the session after the greeting.
Commands(s) == SelectSeq(s.steps, LAMBDA c : c \notin {"EHLO", "HELO"})

StepOf(c) == IF HasPrefix(c, "RCPT ") THEN "RCPT" ELSE c

\* The order sendMail465 is to follow for the session's arguments.
Expected(s) ==
    (IF s.ext THEN <<"AUTH">> ELSE <<>>)
    \o <<"MAIL">>
    \o [i \in 1..Len(s.to) |-> "RCPT " \o s.to[i]]
    \o <<"DATA", "WRITE", "CLOSE", "QUIT">>

ProtocolSteps == {"AUTH", "MAIL", "RCPT", "DATA", "WRITE", "CLOSE", "QUIT"}

\* C1: a lookup whose identifier has a length other than 9 and 14, or holds a
\* character that is not a digit, is answered 400 and no request to the
\* registry is issued for it.
C1_InvalidIdentifierRejected ==
    \A r \in Reqs :
        (/\ Lookup(r)
         /\ pc[r] \in {"registry", "done"}
         /\ (Len(numidOf(r)) \notin {9, 14} \/ ~IsDigits(numidOf(r))))
        => (calls[r] = 0 /\ (pc[r] = "done" => resp[r].status = 400))

\* C2: sendMail465 issues AUTH (only when the server advertises it), MAIL,
\* one RCPT per recipient in list order, DATA, the message, the close of the
\* data stream and QUIT in this order, and no step is issued unless all the
\* steps before it succeeded: the commands sent after the greeting are the
\* beginning of this sequence, and a step that fails is the last one sent.
C2_FixedStepOrder ==
    \A r \in Reqs :
        LET s == smtp[r]
            cmds == Commands(s)
        IN
        /\ IsPrefix(cmds, Expected(s))
        /\ (InSeq("AUTH", cmds) => s.ext)
        /\ (s.failed \in ProtocolSteps
               => cmds # <<>> /\ StepOf(cmds[Len(cmds)]) = s.failed /\ s.returned)
        /\ (s.failed \in {"DIAL", "NEWCLIENT", "EHLO"} => cmds = <<>> /\ s.returned)

\* C3: when sendMail465 has returned, on success or on the failure of any
\* step, the TLS connection and the SMTP session it opened are closed.
C3_ResourcesReleased ==
    \A r \in Reqs :
        (smtp[r].path = "465" /\ pc[r] = "done")
        => /\ smtp[r].returned
           /\ smtp[r].conn # "open"
           /\ smtp[r].client # "open"
           /\ smtp[r].defers = <<>>

C3_Witness ==
    \E r \in Reqs :
        /\ pc[r] = "done" /\ smtp[r].failed = "AUTH"
        /\ smtp[r].conn = "closed" /\ smtp[r].client = "closed"

\* C4: when a step of the delivery fails, no later step is executed, the send
\* returns an error and the send-email handler answers 500; a rejected RCPT
\* means that no further RCPT and no DATA is issued.
C4_DeliveryFailureIsTotal ==
    \A r \in Reqs :
        LET s == smtp[r] IN
        /\ s.failed # ""
           => /\ pc[r] = "done" /\ s.returned /\ ~err[r].nil
              /\ (s.caller = "handler" => resp[r].status = 500)
              /\ (s.failed \in ProtocolSteps => StepOf(s.steps[Len(s.steps)]) = s.failed)
              /\ (s.failed = "RCPT" => ~InSeq("DATA", s.steps) /\ s.i <= Len(s.to))
        /\ (s.path = "starttls" /\ pc[r] = "done" /\ ~err[r].nil) => resp[r].status = 500

\* C5: when the registry answers a status other than 200 and 404, the handler
\* answers 500 whatever the body of the answer holds.
C5_UpstreamErrorIs500 ==
    \A r \in Reqs :
        (Answered(r) /\ up[r].status \notin {200, 404}) => resp[r].status = 500

\* C6: when the registry answers 404, the handler answers 404 with the fixed
\* message of the revision, which holds no text of the registry's body.
C6_NotFoundIsCallerSafe ==
    \A r \in Reqs :
        (Answered(r) /\ up[r].status = 404)
        => /\ resp[r].status = 404
           /\ resp[r].body = EncodeMap("error", NotFoundMsg(rev))
           /\ (up[r].body # "" => ~Contains(resp[r].body, up[r].body))

C6_Witness ==
    \E r \in Reqs :
        /\ Answered(r) /\ up[r].status = 404 /\ up[r].body # ""
        /\ resp[r].status = 404

\* The kind of error an answer of the registry makes the lookup fail with.
ErrorKind(a) ==
    CASE a.kind \in {"transport", "read"} -> "transport"
      [] a.kind = "http" /\ a.status = 404 -> "notfound"
      [] a.kind = "http" /\ a.status # 200 -> "upstream"
      [] a.kind = "http" /\ ~IsJson(a.body) -> "decode"
      [] OTHER -> "none"

\* C7: the body of an error response depends on the kind of the error alone:
\* two answers of the registry that fail the lookup with the same kind give
\* the same response body, two delivery failures give the same response body,
\* and the registry's body never appears in a response.
C7_ErrorBodyPerKind ==
    \A r \in Reqs :
        /\ (Lookup(r) /\ pc[r] = "registry")
           => \A a1, a2 \in Answers :
                 (ErrorKind(a1) = ErrorKind(a2) /\ ErrorKind(a1) \in {"transport", "upstream", "decode"})
                 => LookupResponse(rev, resp[r], fetch(rev, numidOf(r), a1)).body
                    = LookupResponse(rev, resp[r], fetch(rev, numidOf(r), a2)).body
        /\ (Answered(r) /\ resp[r].status >= 400 /\ up[r].body # "")
           => ~Contains(resp[r].body, up[r].body)
        /\ (smtp[r].caller = "handler" /\ pc[r] = "done" /\ ~err[r].nil)
           => resp[r].body = SendResponse(resp[r], Errorf(StepErr("DIAL"))).body

Sentinels == {"Nom Inconnu", "Nom inconnu"}

\* C8: the canonical name is the denomination when it is set, else the usual
\* denomination when it is set, else the enseigne when it is set, else the
\* sentinel.
C8_NamePriority ==
    \A r \in Reqs :
        (Decoded(r) /\ rev \in ComRevs)
        => LET d == Parse(up[r].body) IN
           IF d.denomination # "" THEN data[r].denomination = d.denomination
           ELSE IF d.denomination_usuelle # ""
           THEN data[r].denomination = d.denomination_usuelle
           ELSE IF d.enseigne # "" THEN data[r].denomination = d.enseigne
           ELSE data[r].denomination \in Sentinels

RootOf(r) == Parse(up[r].body).adresse
NestedOf(r) == Parse(up[r].body).etablissement.adresse
Canonical(r) == [ville |-> data[r].ville, code_postal |-> data[r].code_postal]

\* C9: when the root-level address has a city or a postal code, the canonical
\* city and postal code are the root-level ones.
C9_RootAddressWhenPopulated ==
    \A r \in Reqs :
        (Decoded(r) /\ rev \in ComRevs
         /\ (RootOf(r).ville # "" \/ RootOf(r).code_postal # ""))
        => Canonical(r) = RootOf(r)

\* C10: the canonical city and postal code are the root-level pair, or the
\* etablissement-level pair, or both empty; never one of each.
C10_AddressNeverMerged ==
    \A r \in Reqs :
        Decoded(r) => Canonical(r) \in {RootOf(r), NestedOf(r), NoAdresse}

C10_Witness ==
    \E r \in Reqs :
        /\ Decoded(r) /\ rev \in ComRevs
        /\ RootOf(r).ville = "" /\ RootOf(r).code_postal # ""
        /\ NestedOf(r).ville # "" /\ NestedOf(r).code_postal = ""
        /\ Canonical(r) = NestedOf(r)

\* C11: every 200 lookup response carries a name that is not empty, and when
\* the registry's payload holds no name (denomination, denomination_usuelle,
\* enseigne, common.deno) the name is the sentinel.
C11_NameNeverEmpty ==
    \A r \in Reqs :
        (Answered(r) /\ resp[r].status = 200)
        => /\ resp[r].body = EncodeData(rev, data[r])
           /\ data[r].denomination # ""
           /\ LET d == Parse(up[r].body) IN
              (d.denomination = "" /\ d.denomination_usuelle = "" /\ d.enseigne = ""
               /\ d.common.deno = "")
              => data[r].denomination \in Sentinels

\* The e-mail request the handler decoded for request r.
EmailOf(r) == DecodeEmail(rev, req[r].body)

\* Request r is a send-email request whose message was composed and handed to
\* a transport.
Composed(r) == smtp[r].caller = "handler"

\* The places where sub occurs in s.
Occurrences(s, sub) ==
    {i \in 1..(Len(s) - Len(sub) + 1) : SubSeq(s, i, i + Len(sub) - 1) = sub}

Max(S) == CHOOSE i \in S : \A j \in S : j <= i

\* The lines of s, which CRLF separates.
SplitCRLF(s) ==
    LET P == Occurrences(s, "\r\n")
        n == Cardinality(P)
        pos(k) == CHOOSE i \in P : Cardinality({j \in P : j < i}) = k - 1
    IN [k \in 1..(n + 1) |->
          SubSeq(s, IF k = 1 THEN 1 ELSE pos(k - 1) + 2,
                    IF k = n + 1 THEN Len(s) ELSE pos(k) - 1)]

ClosingMarker == "--" \o boundary \o "--\r\n"

\* The content of the last part of a message: what stands between the last
\* empty line and the line break before the closing marker.
LastPartText(msg) ==
    SubSeq(msg, Max(Occurrences(msg, "\r\n\r\n")) + 4, Len(msg) - Len(ClosingMarker) - 2)

HasAttachment(e) == e.attachment_data # "" /\ e.attachment_name # ""

\* C12: the attachment part of a composed message holds the payload of n
\* characters on exactly ceil(n/76) lines separated by CRLF, each of at most
\* 76 characters, every line but the last full, and the lines put together
\* are the payload.
C12_AttachmentWrapped ==
    \A r \in Reqs :
        (Composed(r) /\ rev = "p001a" /\ HasAttachment(EmailOf(r)))
        => LET d == EmailOf(r).attachment_data
               ls == SplitCRLF(LastPartText(smtp[r].msg))
           IN /\ Len(ls) = (Len(d) + 75) \div 76
              /\ \A i \in 1..Len(ls) : Len(ls[i]) <= 76 /\ (i < Len(ls) => Len(ls[i]) = 76)
              /\ Join(ls, "") = d

C12_Witness ==
    \E r \in Reqs :
        /\ Composed(r) /\ rev = "p001a"
        /\ Len(EmailOf(r).attachment_data) = MaxPayload
        /\ LET ls == SplitCRLF(LastPartText(smtp[r].msg)) IN
           /\ Len(ls) = 3
           /\ Len(ls[1]) = 76 /\ Len(ls[2]) = 76 /\ Len(ls[3]) = MaxPayload - 152
           /\ ls[1] \o ls[2] \o ls[3] = EmailOf(r).attachment_data


\* C13: the composed message is determined by the request and the
\* configuration: it is the message with the headers From, To, Subject,
\* MIME-Version, Content-Type in this order, whichever order the range over
\* the header map takes.
C13_HeaderOrderFixed ==
    \A r \in Reqs :
        (Composed(r) /\ rev = "p001a")
        => \A k \in HeaderOrders :
              smtp[r].msg = Compose_p001a(k, env.SMTP_ADMIN_EMAIL, EmailOf(r))

\* The boundary markers of a message: the lines that start with "--" and the
\* boundary.
Markers(msg) == Occurrences(msg, "\r\n--" \o boundary)

\* C14: a composed message without an attachment holds exactly two boundary
\* markers, the opening one of the text part and the closing one that ends
\* the message, and no attachment section.
C14_TwoSectionsWithoutAttachment ==
    \A r \in Reqs :
        (Composed(r) /\ rev = "p001a" /\ ~HasAttachment(EmailOf(r)))
        => LET msg == smtp[r].msg IN
           /\ Cardinality(Markers(msg)) = 2
           /\ \E i \in Markers(msg) :
                 SubSeq(msg, i + 2, i + 3 + Len(boundary) + 2) = "--" \o boundary \o "\r\n"
           /\ SubSeq(msg, Len(msg) - Len(ClosingMarker) + 1, Len(msg)) = ClosingMarker
           /\ ~Contains(msg, "Content-Disposition: attachment")

DispositionPrefix == "Content-Disposition: attachment; filename=\""

\* The file name as it stands in the Content-Disposition header of a message
\* with an attachment: from the opening quote to the quote that ends the
\* headers of the attachment part.
EmittedName(msg) ==
    SubSeq(msg, Max(Occurrences(msg, DispositionPrefix)) + Len(DispositionPrefix),
                Max(Occurrences(msg, "\"\r\n\r\n")) - 1)

\* C15: the file name written into the Content-Disposition header holds
\* neither a carriage return nor a line feed.
C15_FilenameSingleLine ==
    \A r \in Reqs :
        (Composed(r) /\ rev = "p001a" /\ HasAttachment(EmailOf(r)))
        => /\ ~Contains(EmittedName(smtp[r].msg), "\r")
           /\ ~Contains(EmittedName(smtp[r].msg), "\n")

\* Request r is a POST on the send-email route whose body is a JSON object:
\* the handler decoded it.
DecodedPost(r) ==
    /\ req[r].kind = "http"
    /\ req[r].method = "POST"
    /\ Route(rev, req[r].path) = "sendEmail"
    /\ IsEmailJson(req[r].body)

\* Request r has not gone further than its handler: nothing was composed and
\* no transport was entered.
NotSent(r) == pc[r] \in {"mw", "mux", "done"} /\ smtp[r] = NoSmtp

\* The first required field that is empty, in the order to, subject, body.
FirstMissing(e) ==
    IF e.to = "" THEN "to" ELSE IF e.subject = "" THEN "subject" ELSE "body"

Quoted(f) == "'" \o f \o "'"

\* One of the required fields of the e-mail is empty.
Incomplete(e) == \E f \in {e.to, e.subject, e.body} : f = ""

\* C16: a send-email request with an empty to, subject or body is answered
\* 400 with a missing-field error for the first of them that is empty: the
\* error names that field, and it names no required field that the request
\* holds. With an empty to and a subject and a body that are not empty the
\* error is for to.
C16_FirstMissingFieldNamed ==
    \A r \in Reqs :
        (DecodedPost(r) /\ Incomplete(EmailOf(r)) /\ pc[r] = "done")
        => /\ resp[r].status = 400
           /\ Contains(resp[r].body, Quoted(FirstMissing(EmailOf(r))))
           /\ \A f \in {"to", "subject", "body"} :
                 Contains(resp[r].body, Quoted(f)) => EmailOf(r)[f] = ""

\* C17: a message that is composed and handed to a transport comes from a
\* request with no attachment (name and data both empty) or a complete one
\* (both set), and it holds an attachment part exactly when both are set.
C17_AttachmentBothOrNone ==
    \A r \in Reqs :
        (Composed(r) /\ rev = "p001a")
        => LET e == EmailOf(r) IN
           /\ (e.attachment_name = "") <=> (e.attachment_data = "")
           /\ Contains(smtp[r].msg, DispositionPrefix) <=> HasAttachment(e)

\* Request r is on the send-email route or its alias.
OnSendRoute(r) == req[r].kind = "http" /\ Route(rev, req[r].path) = "sendEmail"

\* C18: a request on the send-email route with a method other than POST and
\* OPTIONS is answered 405 whatever its body and the relay configuration;
\* nothing is logged, composed or sent for it.
C18_MethodNotAllowed ==
    \A r \in Reqs :
        (OnSendRoute(r) /\ req[r].method \notin {"POST", "OPTIONS"})
        => /\ NotSent(r)
           /\ log[r] = <<>>
           /\ pc[r] = "done"
              => /\ resp[r].status = 405
                 /\ resp[r].body
                    = EncodeMap("error", "Méthode non autorisée. Utilisez POST.")

C18_Witness ==
    \E r \in Reqs :
        /\ OnSendRoute(r) /\ req[r].method = "GET" /\ req[r].path = "/Send/"
        /\ IsEmailJson(req[r].body) /\ ~Incomplete(EmailOf(r))
        /\ env = FullEnv
        /\ pc[r] = "done" /\ resp[r].status = 405

RelaySettings == {"SMTP_HOST", "SMTP_PORT", "SMTP_ADMIN_EMAIL", "SMTP_PASS"}

\* C19: when the relay host, port, user or password is not configured, a
\* valid send-email request is answered 500 with the configuration-error
\* message; nothing is composed and no transport is entered.
C19_ConfigMissingIs500 ==
    \A r \in Reqs :
        (/\ DecodedPost(r) /\ ~Incomplete(EmailOf(r))
         /\ \E v \in RelaySettings : env[v] = "")
        => /\ NotSent(r)
           /\ pc[r] = "done"
              => /\ resp[r].status = 500
                 /\ resp[r].body
                    = EncodeMap("error", "Configuration serveur email incomplète")
                 /\ err[r].nil

C19_Witness ==
    \E r \in Reqs :
        /\ DecodedPost(r) /\ ~Incomplete(EmailOf(r))
        /\ env.SMTP_PASS = "" /\ env.SMTP_HOST # ""
        /\ pc[r] = "done" /\ resp[r].status = 500

\* Where sendMail465 can be.
Pc465 == {"dial", "newclient", "extension", "helo", "auth", "abort", "abortquit", "mail",
          "rcpt", "data", "write", "close", "quit"}

\* C20: the port alone selects the transport of a composed message:
\* sendMail465 when it is 465, smtp.SendMail for every other port, never
\* both; the envelope sender, the recipient list and the message do not
\* depend on the path.
C20_PortSelectsTransport ==
    \A r \in Reqs :
        Composed(r)
        => /\ smtp[r].from = env.SMTP_ADMIN_EMAIL
           /\ smtp[r].to = <<EmailOf(r).to>>
           /\ \E k \in HeaderOrders :
                 smtp[r].msg = Compose(rev, k, env.SMTP_ADMIN_EMAIL, EmailOf(r))
           /\ IF env.SMTP_PORT = "465"
              THEN /\ smtp[r].path = "465"
                   /\ pc[r] \in Pc465 \cup {"done", "blocked"}
                   /\ pc[r] = "done" => smtp[r].returned
              ELSE /\ smtp[r].path = "starttls"
                   /\ pc[r] \in {"starttls", "done", "blocked"}
                   /\ smtp[r].steps = <<>> /\ smtp[r].conn = "none" /\ ~smtp[r].returned

C20_Witness ==
    \E r \in Reqs :
        /\ Composed(r) /\ env.SMTP_PORT = "25"
        /\ smtp[r].path = "starttls"
        /\ pc[r] = "done" /\ err[r].nil /\ resp[r].status = 200

\* ---------------------------------------------------------------------------
\* C21: a request with method OPTIONS, on any path, is answered by the
\* middleware: it never reaches the router, so no log line is written, no
\* registry call is issued, no body is decoded and no mail session exists,
\* and its answer is 200 with an empty body and the CORS headers.
Preflight(r) == req[r].kind = "http" /\ req[r].method = "OPTIONS"

C21_PreflightAnsweredByMiddleware ==
    \A r \in Reqs :
        Preflight(r) =>
            /\ pc[r] \in {"mw", "done"}
            /\ calls[r] = 0 /\ up[r] = NoAnswer /\ data[r] = NoData /\ err[r] = NoErr
            /\ log[r] = <<>> /\ smtp[r] = NoSmtp
            /\ pc[r] = "done" =>
                  /\ resp[r].status = 200 /\ resp[r].body = ""
                  /\ Contains(resp[r].headers.allowMethods, "OPTIONS")
                  /\ resp[r].headers.allowHeaders # ""
                  /\ resp[r].headers.contentType = ""

\* A preflight answered on the send-email path although its body holds a
\* complete message.
C21_Witness ==
    \E r \in Reqs :
        /\ Preflight(r) /\ pc[r] = "done" /\ resp[r].status = 200
        /\ OnSendRoute(r) /\ IsEmailJson(req[r].body)
        /\ ~Incomplete(DecodeEmail(rev, req[r].body))

\* ---------------------------------------------------------------------------
\* C22: when the registry answers 200 with a body that is not well-formed
\* JSON, the lookup fails with a decode error and the handler answers 500;
\* no entity is returned for it.
C22_MalformedBodyIs500 ==
    \A r \in Reqs :
        (Answered(r) /\ up[r].status = 200 /\ ~IsJson(up[r].body))
        => /\ ~err[r].nil
           /\ data[r] = NoData
           /\ resp[r].status = 500

\* ---------------------------------------------------------------------------
\* C23: no request issues more than one outbound call (one registry call for
\* a lookup, one relay connection for a delivery), and a request that was
\* answered stays answered: its response is written once and it issues no
\* further call or SMTP command.
C23_NoRetry ==
    /\ [](\A r \in Reqs : calls[r] <= 1)
    /\ [][\A r \in Reqs :
            pc[r] = "done"
            => /\ pc'[r] = "done" /\ resp'[r] = resp[r] /\ err'[r] = err[r]
               /\ calls'[r] = calls[r] /\ smtp'[r].steps = smtp[r].steps]_vars

\* A lookup whose only call could not reach the registry, answered 500.
C23_Witness ==
    \E r \in Reqs :
        /\ Lookup(r) /\ pc[r] = "done" /\ up[r].kind = "transport"
        /\ calls[r] = 1 /\ resp[r].status = 500

\* ---------------------------------------------------------------------------
\* C24: every request that arrived is eventually answered, whatever the
\* registry and the relay do, because each outbound call is bounded by a
\* timeout.
C24_EveryRequestAnswered ==
    \A r \in Reqs : (req[r].kind = "http") ~> (pc[r] = "done")

\* ---------------------------------------------------------------------------
\* The response of request r as the middleware left it for the handler.
Prepared(r) == [status |-> 0, body |-> "", headers |-> CorsHeaders(rev, env, req[r].origin)]

\* What the transport of request r returned, from the relay's answers alone.
Delivered(r) ==
    IF smtp[r].path = "465"
    THEN IF smtp[r].failed = "" THEN NoErr
         ELSE IF smtp[r].failed = "AUTH" /\ ~InSeq("*", smtp[r].steps) THEN Errorf("EOF")
         ELSE Errorf(StepErr(smtp[r].failed))
    ELSE err[r]

\* A step leaves everything that belongs to request o as it is.
Untouched(o) ==
    /\ pc'[o] = pc[o] /\ req'[o] = req[o] /\ up'[o] = up[o] /\ calls'[o] = calls[o]
    /\ data'[o] = data[o] /\ err'[o] = err[o] /\ resp'[o] = resp[o]
    /\ log'[o] = log[o] /\ smtp'[o] = smtp[o]

\* C25: concurrent requests are independent. However the steps of the
\* requests in flight interleave, the response of each answered lookup and
\* send is the one computed from its own request and the answers its own
\* registry call or relay session received; and every step changes the state
\* of one request only, the revision and the configuration never.
C25_RequestsIndependent ==
    /\ [](\A r \in Reqs :
            pc[r] = "done"
            => /\ (Lookup(r) /\ up[r] # NoAnswer)
                  => /\ resp[r] = LookupResponse(rev, Prepared(r),
                                                 fetch(rev, numidOf(r), up[r]))
                     /\ data[r] = fetch(rev, numidOf(r), up[r]).data
               /\ Composed(r)
                  => /\ err[r] = Delivered(r)
                     /\ resp[r] = SendResponse(Prepared(r), Delivered(r)))
    /\ [][/\ rev' = rev /\ env' = env
          /\ \E r \in Reqs : \A o \in Reqs \ {r} : Untouched(o)]_vars

\* Two lookups of the same identifier were in flight together and got
\* different answers from the registry: one was answered 200, the other 404.
C25_Witness ==
    \E r1, r2 \in Reqs :
        /\ r1 # r2 /\ req[r1] = req[r2]
        /\ Answered(r1) /\ up[r1].status = 200 /\ resp[r1].status = 200
        /\ Answered(r2) /\ up[r2].status = 404 /\ resp[r2].status = 404

\* ---------------------------------------------------------------------------
\* C26: when the registry's body is decoded (the registry answered 200), the
\* raw body is in the diagnostic log before the decoding: the log of the
\* request holds, before the line the handler writes about the outcome, a
\* line of the fetch function that holds the body. A decode failure is so
\* always preceded by a log entry with the body.
C26_RawBodyLoggedBeforeDecode ==
    \A r \in Reqs :
        (Answered(r) /\ up[r].status = 200)
        => \E i \in 1..(Len(log[r]) - 1) :
              /\ log[r][i] # SearchLog(rev, numidOf(r))
              /\ Contains(log[r][i], up[r].body)

\* ---------------------------------------------------------------------------
\* The relay accepted the message of request r: the end of the data stream
\* was sent and answered.
Accepted(r) == InSeq("CLOSE", smtp[r].steps) /\ smtp[r].failed # "CLOSE"

\* C27: on the implicit-TLS path the handler reports a delivery failure only
\* when the relay has not accepted the message: a request whose data stream
\* was closed successfully is never answered with a failure.
C27_FailureMeansNotAccepted ==
    \A r \in Reqs :
        (Composed(r) /\ smtp[r].path = "465" /\ pc[r] = "done" /\ Accepted(r))
        => resp[r].status = 200

\* ---------------------------------------------------------------------------
\* The header block of a message: what stands before its first empty line.
HeaderBlock(msg) ==
    LET P == Occurrences(msg, "\r\n\r\n")
    IN SubSeq(msg, 1, (CHOOSE i \in P : \A j \in P : i <= j) - 1)

\* The name of a header line: what stands before its first ": ".
HeaderName(line) ==
    LET P == Occurrences(line, ": ")
    IN IF P = {} THEN line ELSE SubSeq(line, 1, (CHOOSE i \in P : \A j \in P : i <= j) - 1)

\* C28: whatever to and subject hold, the header block of the composed
\* message is made of exactly five lines, one for each of From, To, Subject,
\* MIME-Version and Content-Type: a field adds no header line and does not
\* end the block early.
C28_HeaderBlockIsFiveLines ==
    \A r \in Reqs :
        (Composed(r) /\ rev = "p001a")
        => LET lines == SplitCRLF(HeaderBlock(smtp[r].msg)) IN
           /\ Len(lines) = 5
           /\ {HeaderName(lines[i]) : i \in 1..Len(lines)}
                 = {"From", "To", "Subject", "MIME-Version", "Content-Type"}

\* ---------------------------------------------------------------------------
\* C29: sendEmailHandler checks the method, the JSON body, the required
\* fields and the relay configuration in this order and stops at the first
\* check that fails: a request that was answered without entering a transport
\* has the status of its first failing check (405, 400, 400, 500), so a POST
\* with a malformed body or an empty required field is answered 400 even
\* when the relay is not configured, and nothing is logged for it; a
\* transport is entered only when all four checks passed.
C29_ChecksInOrder ==
    \A r \in Reqs :
        (OnSendRoute(r) /\ req[r].method # "OPTIONS")
        => /\ (pc[r] = "done" /\ NotSent(r))
              => IF req[r].method # "POST" THEN resp[r].status = 405
                 ELSE IF ~IsEmailJson(req[r].body) \/ Incomplete(EmailOf(r))
                 THEN resp[r].status = 400 /\ log[r] = <<>>
                 ELSE resp[r].status = 500 /\ \E v \in RelaySettings : env[v] = ""
           /\ ~NotSent(r)
              => /\ req[r].method = "POST" /\ IsEmailJson(req[r].body)
                 /\ ~Incomplete(EmailOf(r))
                 /\ \A v \in RelaySettings : env[v] # ""

\* A POST with a body that is not JSON, answered 400 although the relay host
\* is not configured.
C29_Witness ==
    \E r \in Reqs :
        /\ OnSendRoute(r) /\ req[r].method = "POST" /\ req[r].body = "oops"
        /\ env.SMTP_HOST = ""
        /\ pc[r] = "done" /\ resp[r].status = 400

====
